---- MODULE Spec2Model ----
(***************************************************************************)
(* Model of GitHubClient (src/src/client.ts): the lazily created transport *)
(* handle, the owner-scoped lookups, the project resolver, the pagination  *)
(* loops, the item normalizers and moveIssue; and of the item-move command *)
(* of the CLI, which chains three client operations.                       *)
(*                                                                         *)
(* One client operation runs at a time (SpecConcurrent alone starts        *)
(* several).  Every await is one action: the action issues the request,    *)
(* receives one of the responses the service can give, and runs the        *)
(* handler's code up to the next await (or to its return / throw).         *)
(*                                                                         *)
(* The service is a cursor-addressed data set: a request carrying cursor   *)
(* `after` is answered with the nodes that follow position `after`.  The   *)
(* page length, the pageInfo flags, a missing container and a transport    *)
(* error are chosen nondeterministically on every request.                 *)
(***************************************************************************)
EXTENDS Integers, Sequences, FiniteSets, TLC

VARIABLES
    op,       \* the public operation the caller invoked ("none" before the call)
    fn,       \* the method whose body is executing (resolveProject delegates)
    pc,       \* position inside fn: "idle", "auth", "org", "user", "loop", "single",
              \* "done"; "calls" and "exit" for a caller's program
    args,     \* the arguments of the call
    world,    \* the data the service holds for this call
    after,    \* the local `after` cursor of the running pagination loop
    acc,      \* the local accumulator (projects / repos / nodes / results)
    reqs,     \* every transport request the operation issued so far, in order
    resps,    \* the response to each request, in order
    console,  \* messages written by console.error and console.warn
    ret,      \* outcome of the operation
    client,   \* the GitHubClient instance: token, environment, graphqlClient
    cmd       \* the caller's program in progress: a CLI command or a sequence
              \* of calls ([name |-> "none"] for a single library call)

vars == <<op, fn, pc, args, world, after, acc, reqs, resps, console, ret, client, cmd>>

----------------------------------------------------------------------------
(* Bounds of the model.                                                    *)

\* most requests the service answers with "there is a next page" in one loop
MaxPages == 2
\* most nodes the service puts on one page
MaxPageLen == 2

----------------------------------------------------------------------------
(* JavaScript values.                                                      *)

\* `null` as the value of a cursor variable
NULL == -2
\* the empty string "" as the value of a cursor (falsy, like null)
EMPTY == -1
\* a cursor c >= 0 is the opaque non-empty string naming position c

\* a loop condition that never holds
truthyNever(c) == FALSE
\* JavaScript truthiness of a cursor: `while (after)`, `if (!after) break`
truthy(c) == c >= 0

\* `null` / `undefined` where an object is expected
Null == [null |-> TRUE]

\* `undefined` and `null` where a string is expected
Undefined == "undefined"
NullStr == "null"

\* JavaScript `s || d` for a string s
orElse(s, d) == IF s \in {Undefined, NullStr, ""} THEN d ELSE s

Min(a, b) == IF a < b THEN a ELSE b
Max(a, b) == IF a > b THEN a ELSE b

\* strings whose characters matter are sequences of one-character strings
Digits == <<"0", "1", "2", "3", "4", "5", "6", "7", "8", "9">>
isDigit(c) == \E i \in 1..10 : Digits[i] = c
digitValue(c) == (CHOOSE i \in 1..10 : Digits[i] = c) - 1

\* A string is the sequence of its UTF-16 code units. A unit is written as
\* its character where a string of a module can hold it and as "U+" and its
\* four hexadecimal digits where it cannot ("U+0130"); a surrogate is always
\* written the second way ("U+D801"). A character of the supplementary planes
\* is a high surrogate followed by a low one. The four tables below cover the
\* Basic Multilingual Plane, the three after them the supplementary planes.

\* the letters toLowerCase() maps to another single character, each at the
\* position of that character in Lower
Upper ==
    <<"A", "B", "C", "D", "E", "F", "G", "H", "I", "J", "K", "L", "M", "N",
      "O", "P", "Q", "R", "S", "T", "U", "V", "W", "X", "Y", "Z", "À", "Á",
      "Â", "Ã", "Ä", "Å", "Æ", "Ç", "È", "É", "Ê", "Ë", "Ì", "Í", "Î", "Ï",
      "Ð", "Ñ", "Ò", "Ó", "Ô", "Õ", "Ö", "Ø", "Ù", "Ú", "Û", "Ü", "Ý", "Þ",
      "U+0100", "U+0102", "U+0104", "U+0106", "U+0108", "U+010A", "U+010C",
      "U+010E", "U+0110", "U+0112", "U+0114", "U+0116", "U+0118", "U+011A",
      "U+011C", "U+011E", "U+0120", "U+0122", "U+0124", "U+0126", "U+0128",
      "U+012A", "U+012C", "U+012E", "U+0132", "U+0134", "U+0136", "U+0139",
      "U+013B", "U+013D", "U+013F", "U+0141", "U+0143", "U+0145", "U+0147",
      "U+014A", "U+014C", "U+014E", "U+0150", "U+0152", "U+0154", "U+0156",
      "U+0158", "U+015A", "U+015C", "U+015E", "U+0160", "U+0162", "U+0164",
      "U+0166", "U+0168", "U+016A", "U+016C", "U+016E", "U+0170", "U+0172",
      "U+0174", "U+0176", "U+0178", "U+0179", "U+017B", "U+017D", "Ɓ", "Ƃ",
      "Ƅ", "Ɔ", "Ƈ", "Ɖ", "Ɗ", "Ƌ", "Ǝ", "Ə", "Ɛ", "Ƒ", "Ɠ", "Ɣ", "Ɩ", "Ɨ",
      "Ƙ", "Ɯ", "Ɲ", "Ɵ", "Ơ", "Ƣ", "Ƥ", "Ʀ", "Ƨ", "Ʃ", "Ƭ", "Ʈ", "Ư", "Ʊ",
      "Ʋ", "Ƴ", "Ƶ", "Ʒ", "Ƹ", "Ƽ", "Ǆ", "ǅ", "Ǉ", "ǈ", "Ǌ", "ǋ", "Ǎ", "Ǐ",
      "Ǒ", "Ǔ", "Ǖ", "Ǘ", "Ǚ", "Ǜ", "Ǟ", "Ǡ", "Ǣ", "Ǥ", "Ǧ", "Ǩ", "Ǫ", "Ǭ",
      "Ǯ", "Ǳ", "ǲ", "Ǵ", "Ƕ", "Ƿ", "Ǹ", "Ǻ", "Ǽ", "Ǿ", "U+0200", "U+0202",
      "U+0204", "U+0206", "U+0208", "U+020A", "U+020C", "U+020E", "U+0210",
      "U+0212", "U+0214", "U+0216", "U+0218", "U+021A", "U+021C", "U+021E",
      "U+0220", "U+0222", "U+0224", "U+0226", "U+0228", "U+022A", "U+022C",
      "U+022E", "U+0230", "U+0232", "U+023A", "U+023B", "U+023D", "U+023E",
      "U+0241", "U+0243", "U+0244", "U+0245", "U+0246", "U+0248", "U+024A",
      "U+024C", "U+024E", "U+0370", "U+0372", "U+0376", "U+037F", "Ά", "Έ",
      "Ή", "Ί", "Ό", "Ύ", "Ώ", "Α", "Β", "Γ", "Δ", "Ε", "Ζ", "Η", "Θ", "Ι",
      "Κ", "Λ", "Μ", "Ν", "Ξ", "Ο", "Π", "Ρ", "Σ", "Τ", "Υ", "Φ", "Χ", "Ψ",
      "Ω", "Ϊ", "Ϋ", "Ϗ", "Ϙ", "Ϛ", "Ϝ", "Ϟ", "Ϡ", "Ϣ", "Ϥ", "Ϧ", "Ϩ", "Ϫ",
      "Ϭ", "Ϯ", "ϴ", "Ϸ", "Ϲ", "Ϻ", "Ͻ", "Ͼ", "Ͽ", "U+0400", "U+0401",
      "U+0402", "U+0403", "U+0404", "U+0405", "U+0406", "U+0407", "U+0408",
      "U+0409", "U+040A", "U+040B", "U+040C", "U+040D", "U+040E", "U+040F",
      "U+0410", "U+0411", "U+0412", "U+0413", "U+0414", "U+0415", "U+0416",
      "U+0417", "U+0418", "U+0419", "U+041A", "U+041B", "U+041C", "U+041D",
      "U+041E", "U+041F", "U+0420", "U+0421", "U+0422", "U+0423", "U+0424",
      "U+0425", "U+0426", "U+0427", "U+0428", "U+0429", "U+042A", "U+042B",
      "U+042C", "U+042D", "U+042E", "U+042F", "U+0460", "U+0462", "U+0464",
      "U+0466", "U+0468", "U+046A", "U+046C", "U+046E", "U+0470", "U+0472",
      "U+0474", "U+0476", "U+0478", "U+047A", "U+047C", "U+047E", "Ҁ", "Ҋ",
      "Ҍ", "Ҏ", "Ґ", "Ғ", "Ҕ", "Җ", "Ҙ", "Қ", "Ҝ", "Ҟ", "Ҡ", "Ң", "Ҥ", "Ҧ",
      "Ҩ", "Ҫ", "Ҭ", "Ү", "Ұ", "Ҳ", "Ҵ", "Ҷ", "Ҹ", "Һ", "Ҽ", "Ҿ", "Ӏ", "Ӂ",
      "Ӄ", "Ӆ", "Ӈ", "Ӊ", "Ӌ", "Ӎ", "Ӑ", "Ӓ", "Ӕ", "Ӗ", "Ә", "Ӛ", "Ӝ", "Ӟ",
      "Ӡ", "Ӣ", "Ӥ", "Ӧ", "Ө", "Ӫ", "Ӭ", "Ӯ", "Ӱ", "Ӳ", "Ӵ", "Ӷ", "Ӹ", "Ӻ",
      "Ӽ", "Ӿ", "U+0500", "U+0502", "U+0504", "U+0506", "U+0508", "U+050A",
      "U+050C", "U+050E", "U+0510", "U+0512", "U+0514", "U+0516", "U+0518",
      "U+051A", "U+051C", "U+051E", "U+0520", "U+0522", "U+0524", "U+0526",
      "U+0528", "U+052A", "U+052C", "U+052E", "U+0531", "U+0532", "U+0533",
      "U+0534", "U+0535", "U+0536", "U+0537", "U+0538", "U+0539", "U+053A",
      "U+053B", "U+053C", "U+053D", "U+053E", "U+053F", "U+0540", "U+0541",
      "U+0542", "U+0543", "U+0544", "U+0545", "U+0546", "U+0547", "U+0548",
      "U+0549", "U+054A", "U+054B", "U+054C", "U+054D", "U+054E", "U+054F",
      "U+0550", "U+0551", "U+0552", "U+0553", "U+0554", "U+0555", "U+0556",
      "Ⴀ", "Ⴁ", "Ⴂ", "Ⴃ", "Ⴄ", "Ⴅ", "Ⴆ", "Ⴇ", "Ⴈ", "Ⴉ", "Ⴊ", "Ⴋ", "Ⴌ", "Ⴍ",
      "Ⴎ", "Ⴏ", "Ⴐ", "Ⴑ", "Ⴒ", "Ⴓ", "Ⴔ", "Ⴕ", "Ⴖ", "Ⴗ", "Ⴘ", "Ⴙ", "Ⴚ", "Ⴛ",
      "Ⴜ", "Ⴝ", "Ⴞ", "Ⴟ", "Ⴠ", "Ⴡ", "Ⴢ", "Ⴣ", "Ⴤ", "Ⴥ", "Ⴧ", "Ⴭ", "Ꭰ", "Ꭱ",
      "Ꭲ", "Ꭳ", "Ꭴ", "Ꭵ", "Ꭶ", "Ꭷ", "Ꭸ", "Ꭹ", "Ꭺ", "Ꭻ", "Ꭼ", "Ꭽ", "Ꭾ", "Ꭿ",
      "Ꮀ", "Ꮁ", "Ꮂ", "Ꮃ", "Ꮄ", "Ꮅ", "Ꮆ", "Ꮇ", "Ꮈ", "Ꮉ", "Ꮊ", "Ꮋ", "Ꮌ", "Ꮍ",
      "Ꮎ", "Ꮏ", "Ꮐ", "Ꮑ", "Ꮒ", "Ꮓ", "Ꮔ", "Ꮕ", "Ꮖ", "Ꮗ", "Ꮘ", "Ꮙ", "Ꮚ", "Ꮛ",
      "Ꮜ", "Ꮝ", "Ꮞ", "Ꮟ", "Ꮠ", "Ꮡ", "Ꮢ", "Ꮣ", "Ꮤ", "Ꮥ", "Ꮦ", "Ꮧ", "Ꮨ", "Ꮩ",
      "Ꮪ", "Ꮫ", "Ꮬ", "Ꮭ", "Ꮮ", "Ꮯ", "Ꮰ", "Ꮱ", "Ꮲ", "Ꮳ", "Ꮴ", "Ꮵ", "Ꮶ", "Ꮷ",
      "Ꮸ", "Ꮹ", "Ꮺ", "Ꮻ", "Ꮼ", "Ꮽ", "Ꮾ", "Ꮿ", "Ᏸ", "Ᏹ", "Ᏺ", "Ᏻ", "Ᏼ", "Ᏽ",
      "Ᲊ", "Ა", "Ბ", "Გ", "Დ", "Ე", "Ვ", "Ზ", "Თ", "Ი", "Კ", "Ლ", "Მ", "Ნ",
      "Ო", "Პ", "Ჟ", "Რ", "Ს", "Ტ", "Უ", "Ფ", "Ქ", "Ღ", "Ყ", "Შ", "Ჩ", "Ც",
      "Ძ", "Წ", "Ჭ", "Ხ", "Ჯ", "Ჰ", "Ჱ", "Ჲ", "Ჳ", "Ჴ", "Ჵ", "Ჶ", "Ჷ", "Ჸ",
      "Ჹ", "Ჺ", "Ჽ", "Ჾ", "Ჿ", "U+1E00", "U+1E02", "U+1E04", "U+1E06",
      "U+1E08", "U+1E0A", "U+1E0C", "U+1E0E", "U+1E10", "U+1E12", "U+1E14",
      "U+1E16", "U+1E18", "U+1E1A", "U+1E1C", "U+1E1E", "U+1E20", "U+1E22",
      "U+1E24", "U+1E26", "U+1E28", "U+1E2A", "U+1E2C", "U+1E2E", "U+1E30",
      "U+1E32", "U+1E34", "U+1E36", "U+1E38", "U+1E3A", "U+1E3C", "U+1E3E",
      "U+1E40", "U+1E42", "U+1E44", "U+1E46", "U+1E48", "U+1E4A", "U+1E4C",
      "U+1E4E", "U+1E50", "U+1E52", "U+1E54", "U+1E56", "U+1E58", "U+1E5A",
      "U+1E5C", "U+1E5E", "U+1E60", "U+1E62", "U+1E64", "U+1E66", "U+1E68",
      "U+1E6A", "U+1E6C", "U+1E6E", "U+1E70", "U+1E72", "U+1E74", "U+1E76",
      "U+1E78", "U+1E7A", "U+1E7C", "U+1E7E", "Ẁ", "Ẃ", "Ẅ", "Ẇ", "Ẉ", "Ẋ",
      "Ẍ", "Ẏ", "Ẑ", "Ẓ", "Ẕ", "ẞ", "Ạ", "Ả", "Ấ", "Ầ", "Ẩ", "Ẫ", "Ậ", "Ắ",
      "Ằ", "Ẳ", "Ẵ", "Ặ", "Ẹ", "Ẻ", "Ẽ", "Ế", "Ề", "Ể", "Ễ", "Ệ", "Ỉ", "Ị",
      "Ọ", "Ỏ", "Ố", "Ồ", "Ổ", "Ỗ", "Ộ", "Ớ", "Ờ", "Ở", "Ỡ", "Ợ", "Ụ", "Ủ",
      "Ứ", "Ừ", "Ử", "Ữ", "Ự", "Ỳ", "Ỵ", "Ỷ", "Ỹ", "Ỻ", "Ỽ", "Ỿ", "U+1F08",
      "U+1F09", "U+1F0A", "U+1F0B", "U+1F0C", "U+1F0D", "U+1F0E", "U+1F0F",
      "U+1F18", "U+1F19", "U+1F1A", "U+1F1B", "U+1F1C", "U+1F1D", "U+1F28",
      "U+1F29", "U+1F2A", "U+1F2B", "U+1F2C", "U+1F2D", "U+1F2E", "U+1F2F",
      "U+1F38", "U+1F39", "U+1F3A", "U+1F3B", "U+1F3C", "U+1F3D", "U+1F3E",
      "U+1F3F", "U+1F48", "U+1F49", "U+1F4A", "U+1F4B", "U+1F4C", "U+1F4D",
      "U+1F59", "U+1F5B", "U+1F5D", "U+1F5F", "U+1F68", "U+1F69", "U+1F6A",
      "U+1F6B", "U+1F6C", "U+1F6D", "U+1F6E", "U+1F6F", "ᾈ", "ᾉ", "ᾊ", "ᾋ",
      "ᾌ", "ᾍ", "ᾎ", "ᾏ", "ᾘ", "ᾙ", "ᾚ", "ᾛ", "ᾜ", "ᾝ", "ᾞ", "ᾟ", "ᾨ", "ᾩ",
      "ᾪ", "ᾫ", "ᾬ", "ᾭ", "ᾮ", "ᾯ", "Ᾰ", "Ᾱ", "Ὰ", "Ά", "ᾼ", "Ὲ", "Έ", "Ὴ",
      "Ή", "ῌ", "Ῐ", "Ῑ", "Ὶ", "Ί", "Ῠ", "Ῡ", "Ὺ", "Ύ", "Ῥ", "Ὸ", "Ό", "Ὼ",
      "Ώ", "ῼ", "U+2126", "U+212A", "U+212B", "U+2132", "U+2160", "U+2161",
      "U+2162", "U+2163", "U+2164", "U+2165", "U+2166", "U+2167", "U+2168",
      "U+2169", "U+216A", "U+216B", "U+216C", "U+216D", "U+216E", "U+216F",
      "Ↄ", "Ⓐ", "Ⓑ", "Ⓒ", "Ⓓ", "Ⓔ", "Ⓕ", "Ⓖ", "Ⓗ", "Ⓘ", "Ⓙ", "Ⓚ", "Ⓛ", "Ⓜ",
      "Ⓝ", "Ⓞ", "Ⓟ", "Ⓠ", "Ⓡ", "Ⓢ", "Ⓣ", "Ⓤ", "Ⓥ", "Ⓦ", "Ⓧ", "Ⓨ", "Ⓩ",
      "U+2C00", "U+2C01", "U+2C02", "U+2C03", "U+2C04", "U+2C05", "U+2C06",
      "U+2C07", "U+2C08", "U+2C09", "U+2C0A", "U+2C0B", "U+2C0C", "U+2C0D",
      "U+2C0E", "U+2C0F", "U+2C10", "U+2C11", "U+2C12", "U+2C13", "U+2C14",
      "U+2C15", "U+2C16", "U+2C17", "U+2C18", "U+2C19", "U+2C1A", "U+2C1B",
      "U+2C1C", "U+2C1D", "U+2C1E", "U+2C1F", "U+2C20", "U+2C21", "U+2C22",
      "U+2C23", "U+2C24", "U+2C25", "U+2C26", "U+2C27", "U+2C28", "U+2C29",
      "U+2C2A", "U+2C2B", "U+2C2C", "U+2C2D", "U+2C2E", "U+2C2F", "U+2C60",
      "U+2C62", "U+2C63", "U+2C64", "U+2C67", "U+2C69", "U+2C6B", "U+2C6D",
      "U+2C6E", "U+2C6F", "U+2C70", "U+2C72", "U+2C75", "U+2C7E", "U+2C7F",
      "Ⲁ", "Ⲃ", "Ⲅ", "Ⲇ", "Ⲉ", "Ⲋ", "Ⲍ", "Ⲏ", "Ⲑ", "Ⲓ", "Ⲕ", "Ⲗ", "Ⲙ", "Ⲛ",
      "Ⲝ", "Ⲟ", "Ⲡ", "Ⲣ", "Ⲥ", "Ⲧ", "Ⲩ", "Ⲫ", "Ⲭ", "Ⲯ", "Ⲱ", "Ⲳ", "Ⲵ", "Ⲷ",
      "Ⲹ", "Ⲻ", "Ⲽ", "Ⲿ", "Ⳁ", "Ⳃ", "Ⳅ", "Ⳇ", "Ⳉ", "Ⳋ", "Ⳍ", "Ⳏ", "Ⳑ", "Ⳓ",
      "Ⳕ", "Ⳗ", "Ⳙ", "Ⳛ", "Ⳝ", "Ⳟ", "Ⳡ", "Ⳣ", "Ⳬ", "Ⳮ", "Ⳳ", "U+A640",
      "U+A642", "U+A644", "U+A646", "U+A648", "U+A64A", "U+A64C", "U+A64E",
      "U+A650", "U+A652", "U+A654", "U+A656", "U+A658", "U+A65A", "U+A65C",
      "U+A65E", "U+A660", "U+A662", "U+A664", "U+A666", "U+A668", "U+A66A",
      "U+A66C", "Ꚁ", "Ꚃ", "Ꚅ", "Ꚇ", "Ꚉ", "Ꚋ", "Ꚍ", "Ꚏ", "Ꚑ", "Ꚓ", "Ꚕ", "Ꚗ",
      "Ꚙ", "Ꚛ", "U+A722", "U+A724", "U+A726", "U+A728", "U+A72A", "U+A72C",
      "U+A72E", "U+A732", "U+A734", "U+A736", "U+A738", "U+A73A", "U+A73C",
      "U+A73E", "U+A740", "U+A742", "U+A744", "U+A746", "U+A748", "U+A74A",
      "U+A74C", "U+A74E", "U+A750", "U+A752", "U+A754", "U+A756", "U+A758",
      "U+A75A", "U+A75C", "U+A75E", "U+A760", "U+A762", "U+A764", "U+A766",
      "U+A768", "U+A76A", "U+A76C", "U+A76E", "U+A779", "U+A77B", "U+A77D",
      "U+A77E", "Ꞁ", "Ꞃ", "Ꞅ", "Ꞇ", "Ꞌ", "Ɥ", "Ꞑ", "Ꞓ", "Ꞗ", "Ꞙ", "Ꞛ", "Ꞝ",
      "Ꞟ", "Ꞡ", "Ꞣ", "Ꞥ", "Ꞧ", "Ꞩ", "Ɦ", "Ɜ", "Ɡ", "Ɬ", "Ɪ", "Ʞ", "Ʇ", "Ʝ",
      "Ꭓ", "Ꞵ", "Ꞷ", "Ꞹ", "Ꞻ", "Ꞽ", "Ꞿ", "Ꟁ", "Ꟃ", "Ꞔ", "Ʂ", "Ᶎ", "Ꟈ", "Ꟊ",
      "Ɤ", "Ꟍ", "꟎", "Ꟑ", "꟒", "꟔", "Ꟗ", "Ꟙ", "Ꟛ", "Ƛ", "Ꟶ", "U+FF21",
      "U+FF22", "U+FF23", "U+FF24", "U+FF25", "U+FF26", "U+FF27", "U+FF28",
      "U+FF29", "U+FF2A", "U+FF2B", "U+FF2C", "U+FF2D", "U+FF2E", "U+FF2F",
      "U+FF30", "U+FF31", "U+FF32", "U+FF33", "U+FF34", "U+FF35", "U+FF36",
      "U+FF37", "U+FF38", "U+FF39", "U+FF3A">>

\* the lower-case form of Upper[i] is Lower[i]
Lower ==
    <<"a", "b", "c", "d", "e", "f", "g", "h", "i", "j", "k", "l", "m", "n",
      "o", "p", "q", "r", "s", "t", "u", "v", "w", "x", "y", "z", "à", "á",
      "â", "ã", "ä", "å", "æ", "ç", "è", "é", "ê", "ë", "ì", "í", "î", "ï",
      "ð", "ñ", "ò", "ó", "ô", "õ", "ö", "ø", "ù", "ú", "û", "ü", "ý", "þ",
      "U+0101", "U+0103", "U+0105", "U+0107", "U+0109", "U+010B", "U+010D",
      "U+010F", "U+0111", "U+0113", "U+0115", "U+0117", "U+0119", "U+011B",
      "U+011D", "U+011F", "U+0121", "U+0123", "U+0125", "U+0127", "U+0129",
      "U+012B", "U+012D", "U+012F", "U+0133", "U+0135", "U+0137", "U+013A",
      "U+013C", "U+013E", "U+0140", "U+0142", "U+0144", "U+0146", "U+0148",
      "U+014B", "U+014D", "U+014F", "U+0151", "U+0153", "U+0155", "U+0157",
      "U+0159", "U+015B", "U+015D", "U+015F", "U+0161", "U+0163", "U+0165",
      "U+0167", "U+0169", "U+016B", "U+016D", "U+016F", "U+0171", "U+0173",
      "U+0175", "U+0177", "ÿ", "U+017A", "U+017C", "U+017E", "U+0253", "ƃ",
      "ƅ", "U+0254", "ƈ", "U+0256", "U+0257", "ƌ", "ǝ", "U+0259", "U+025B",
      "ƒ", "U+0260", "U+0263", "U+0269", "U+0268", "ƙ", "U+026F", "U+0272",
      "U+0275", "ơ", "ƣ", "ƥ", "ʀ", "ƨ", "ʃ", "ƭ", "ʈ", "ư", "ʊ", "ʋ", "ƴ",
      "ƶ", "ʒ", "ƹ", "ƽ", "ǆ", "ǆ", "ǉ", "ǉ", "ǌ", "ǌ", "ǎ", "ǐ", "ǒ", "ǔ",
      "ǖ", "ǘ", "ǚ", "ǜ", "ǟ", "ǡ", "ǣ", "ǥ", "ǧ", "ǩ", "ǫ", "ǭ", "ǯ", "ǳ",
      "ǳ", "ǵ", "ƕ", "ƿ", "ǹ", "ǻ", "ǽ", "ǿ", "U+0201", "U+0203", "U+0205",
      "U+0207", "U+0209", "U+020B", "U+020D", "U+020F", "U+0211", "U+0213",
      "U+0215", "U+0217", "U+0219", "U+021B", "U+021D", "U+021F", "ƞ",
      "U+0223", "U+0225", "U+0227", "U+0229", "U+022B", "U+022D", "U+022F",
      "U+0231", "U+0233", "U+2C65", "U+023C", "ƚ", "U+2C66", "U+0242", "ƀ",
      "ʉ", "ʌ", "U+0247", "U+0249", "U+024B", "U+024D", "U+024F", "U+0371",
      "U+0373", "U+0377", "ϳ", "ά", "έ", "ή", "ί", "ό", "ύ", "ώ", "α", "β",
      "γ", "δ", "ε", "ζ", "η", "θ", "ι", "κ", "λ", "μ", "ν", "ξ", "ο", "π",
      "ρ", "σ", "τ", "υ", "φ", "χ", "ψ", "ω", "ϊ", "ϋ", "ϗ", "ϙ", "ϛ", "ϝ",
      "ϟ", "ϡ", "ϣ", "ϥ", "ϧ", "ϩ", "ϫ", "ϭ", "ϯ", "θ", "ϸ", "ϲ", "ϻ",
      "U+037B", "U+037C", "U+037D", "U+0450", "U+0451", "U+0452", "U+0453",
      "U+0454", "U+0455", "U+0456", "U+0457", "U+0458", "U+0459", "U+045A",
      "U+045B", "U+045C", "U+045D", "U+045E", "U+045F", "U+0430", "U+0431",
      "U+0432", "U+0433", "U+0434", "U+0435", "U+0436", "U+0437", "U+0438",
      "U+0439", "U+043A", "U+043B", "U+043C", "U+043D", "U+043E", "U+043F",
      "U+0440", "U+0441", "U+0442", "U+0443", "U+0444", "U+0445", "U+0446",
      "U+0447", "U+0448", "U+0449", "U+044A", "U+044B", "U+044C", "U+044D",
      "U+044E", "U+044F", "U+0461", "U+0463", "U+0465", "U+0467", "U+0469",
      "U+046B", "U+046D", "U+046F", "U+0471", "U+0473", "U+0475", "U+0477",
      "U+0479", "U+047B", "U+047D", "U+047F", "ҁ", "ҋ", "ҍ", "ҏ", "ґ", "ғ",
      "ҕ", "җ", "ҙ", "қ", "ҝ", "ҟ", "ҡ", "ң", "ҥ", "ҧ", "ҩ", "ҫ", "ҭ", "ү",
      "ұ", "ҳ", "ҵ", "ҷ", "ҹ", "һ", "ҽ", "ҿ", "ӏ", "ӂ", "ӄ", "ӆ", "ӈ", "ӊ",
      "ӌ", "ӎ", "ӑ", "ӓ", "ӕ", "ӗ", "ә", "ӛ", "ӝ", "ӟ", "ӡ", "ӣ", "ӥ", "ӧ",
      "ө", "ӫ", "ӭ", "ӯ", "ӱ", "ӳ", "ӵ", "ӷ", "ӹ", "ӻ", "ӽ", "ӿ", "U+0501",
      "U+0503", "U+0505", "U+0507", "U+0509", "U+050B", "U+050D", "U+050F",
      "U+0511", "U+0513", "U+0515", "U+0517", "U+0519", "U+051B", "U+051D",
      "U+051F", "U+0521", "U+0523", "U+0525", "U+0527", "U+0529", "U+052B",
      "U+052D", "U+052F", "U+0561", "U+0562", "U+0563", "U+0564", "U+0565",
      "U+0566", "U+0567", "U+0568", "U+0569", "U+056A", "U+056B", "U+056C",
      "U+056D", "U+056E", "U+056F", "U+0570", "U+0571", "U+0572", "U+0573",
      "U+0574", "U+0575", "U+0576", "U+0577", "U+0578", "U+0579", "U+057A",
      "U+057B", "U+057C", "U+057D", "U+057E", "U+057F", "ր", "ց", "ւ", "փ",
      "ք", "օ", "ֆ", "U+2D00", "U+2D01", "U+2D02", "U+2D03", "U+2D04",
      "U+2D05", "U+2D06", "U+2D07", "U+2D08", "U+2D09", "U+2D0A", "U+2D0B",
      "U+2D0C", "U+2D0D", "U+2D0E", "U+2D0F", "U+2D10", "U+2D11", "U+2D12",
      "U+2D13", "U+2D14", "U+2D15", "U+2D16", "U+2D17", "U+2D18", "U+2D19",
      "U+2D1A", "U+2D1B", "U+2D1C", "U+2D1D", "U+2D1E", "U+2D1F", "U+2D20",
      "U+2D21", "U+2D22", "U+2D23", "U+2D24", "U+2D25", "U+2D27", "U+2D2D",
      "U+AB70", "U+AB71", "U+AB72", "U+AB73", "U+AB74", "U+AB75", "U+AB76",
      "U+AB77", "U+AB78", "U+AB79", "U+AB7A", "U+AB7B", "U+AB7C", "U+AB7D",
      "U+AB7E", "U+AB7F", "ꮀ", "ꮁ", "ꮂ", "ꮃ", "ꮄ", "ꮅ", "ꮆ", "ꮇ", "ꮈ", "ꮉ",
      "ꮊ", "ꮋ", "ꮌ", "ꮍ", "ꮎ", "ꮏ", "ꮐ", "ꮑ", "ꮒ", "ꮓ", "ꮔ", "ꮕ", "ꮖ", "ꮗ",
      "ꮘ", "ꮙ", "ꮚ", "ꮛ", "ꮜ", "ꮝ", "ꮞ", "ꮟ", "ꮠ", "ꮡ", "ꮢ", "ꮣ", "ꮤ", "ꮥ",
      "ꮦ", "ꮧ", "ꮨ", "ꮩ", "ꮪ", "ꮫ", "ꮬ", "ꮭ", "ꮮ", "ꮯ", "ꮰ", "ꮱ", "ꮲ", "ꮳ",
      "ꮴ", "ꮵ", "ꮶ", "ꮷ", "ꮸ", "ꮹ", "ꮺ", "ꮻ", "ꮼ", "ꮽ", "ꮾ", "ꮿ", "ᏸ", "ᏹ",
      "ᏺ", "ᏻ", "ᏼ", "ᏽ", "ᲊ", "ა", "ბ", "გ", "დ", "ე", "ვ", "ზ", "თ", "ი",
      "კ", "ლ", "მ", "ნ", "ო", "პ", "ჟ", "რ", "ს", "ტ", "უ", "ფ", "ქ", "ღ",
      "ყ", "შ", "ჩ", "ც", "ძ", "წ", "ჭ", "ხ", "ჯ", "ჰ", "ჱ", "ჲ", "ჳ", "ჴ",
      "ჵ", "ჶ", "ჷ", "ჸ", "ჹ", "ჺ", "ჽ", "ჾ", "ჿ", "U+1E01", "U+1E03",
      "U+1E05", "U+1E07", "U+1E09", "U+1E0B", "U+1E0D", "U+1E0F", "U+1E11",
      "U+1E13", "U+1E15", "U+1E17", "U+1E19", "U+1E1B", "U+1E1D", "U+1E1F",
      "U+1E21", "U+1E23", "U+1E25", "U+1E27", "U+1E29", "U+1E2B", "U+1E2D",
      "U+1E2F", "U+1E31", "U+1E33", "U+1E35", "U+1E37", "U+1E39", "U+1E3B",
      "U+1E3D", "U+1E3F", "U+1E41", "U+1E43", "U+1E45", "U+1E47", "U+1E49",
      "U+1E4B", "U+1E4D", "U+1E4F", "U+1E51", "U+1E53", "U+1E55", "U+1E57",
      "U+1E59", "U+1E5B", "U+1E5D", "U+1E5F", "U+1E61", "U+1E63", "U+1E65",
      "U+1E67", "U+1E69", "U+1E6B", "U+1E6D", "U+1E6F", "U+1E71", "U+1E73",
      "U+1E75", "U+1E77", "U+1E79", "U+1E7B", "U+1E7D", "U+1E7F", "ẁ", "ẃ",
      "ẅ", "ẇ", "ẉ", "ẋ", "ẍ", "ẏ", "ẑ", "ẓ", "ẕ", "ß", "ạ", "ả", "ấ", "ầ",
      "ẩ", "ẫ", "ậ", "ắ", "ằ", "ẳ", "ẵ", "ặ", "ẹ", "ẻ", "ẽ", "ế", "ề", "ể",
      "ễ", "ệ", "ỉ", "ị", "ọ", "ỏ", "ố", "ồ", "ổ", "ỗ", "ộ", "ớ", "ờ", "ở",
      "ỡ", "ợ", "ụ", "ủ", "ứ", "ừ", "ử", "ữ", "ự", "ỳ", "ỵ", "ỷ", "ỹ", "ỻ",
      "ỽ", "ỿ", "U+1F00", "U+1F01", "U+1F02", "U+1F03", "U+1F04", "U+1F05",
      "U+1F06", "U+1F07", "U+1F10", "U+1F11", "U+1F12", "U+1F13", "U+1F14",
      "U+1F15", "U+1F20", "U+1F21", "U+1F22", "U+1F23", "U+1F24", "U+1F25",
      "U+1F26", "U+1F27", "U+1F30", "U+1F31", "U+1F32", "U+1F33", "U+1F34",
      "U+1F35", "U+1F36", "U+1F37", "U+1F40", "U+1F41", "U+1F42", "U+1F43",
      "U+1F44", "U+1F45", "U+1F51", "U+1F53", "U+1F55", "U+1F57", "U+1F60",
      "U+1F61", "U+1F62", "U+1F63", "U+1F64", "U+1F65", "U+1F66", "U+1F67",
      "ᾀ", "ᾁ", "ᾂ", "ᾃ", "ᾄ", "ᾅ", "ᾆ", "ᾇ", "ᾐ", "ᾑ", "ᾒ", "ᾓ", "ᾔ", "ᾕ",
      "ᾖ", "ᾗ", "ᾠ", "ᾡ", "ᾢ", "ᾣ", "ᾤ", "ᾥ", "ᾦ", "ᾧ", "ᾰ", "ᾱ", "U+1F70",
      "U+1F71", "ᾳ", "U+1F72", "U+1F73", "U+1F74", "U+1F75", "ῃ", "ῐ", "ῑ",
      "U+1F76", "U+1F77", "ῠ", "ῡ", "U+1F7A", "U+1F7B", "ῥ", "U+1F78",
      "U+1F79", "U+1F7C", "U+1F7D", "ῳ", "ω", "k", "å", "U+214E", "U+2170",
      "U+2171", "U+2172", "U+2173", "U+2174", "U+2175", "U+2176", "U+2177",
      "U+2178", "U+2179", "U+217A", "U+217B", "U+217C", "U+217D", "U+217E",
      "U+217F", "ↄ", "ⓐ", "ⓑ", "ⓒ", "ⓓ", "ⓔ", "ⓕ", "ⓖ", "ⓗ", "ⓘ", "ⓙ", "ⓚ",
      "ⓛ", "ⓜ", "ⓝ", "ⓞ", "ⓟ", "ⓠ", "ⓡ", "ⓢ", "ⓣ", "ⓤ", "ⓥ", "ⓦ", "ⓧ", "ⓨ",
      "ⓩ", "U+2C30", "U+2C31", "U+2C32", "U+2C33", "U+2C34", "U+2C35",
      "U+2C36", "U+2C37", "U+2C38", "U+2C39", "U+2C3A", "U+2C3B", "U+2C3C",
      "U+2C3D", "U+2C3E", "U+2C3F", "U+2C40", "U+2C41", "U+2C42", "U+2C43",
      "U+2C44", "U+2C45", "U+2C46", "U+2C47", "U+2C48", "U+2C49", "U+2C4A",
      "U+2C4B", "U+2C4C", "U+2C4D", "U+2C4E", "U+2C4F", "U+2C50", "U+2C51",
      "U+2C52", "U+2C53", "U+2C54", "U+2C55", "U+2C56", "U+2C57", "U+2C58",
      "U+2C59", "U+2C5A", "U+2C5B", "U+2C5C", "U+2C5D", "U+2C5E", "U+2C5F",
      "U+2C61", "U+026B", "U+1D7D", "U+027D", "U+2C68", "U+2C6A", "U+2C6C",
      "U+0251", "U+0271", "U+0250", "U+0252", "U+2C73", "U+2C76", "U+023F",
      "U+0240", "ⲁ", "ⲃ", "ⲅ", "ⲇ", "ⲉ", "ⲋ", "ⲍ", "ⲏ", "ⲑ", "ⲓ", "ⲕ", "ⲗ",
      "ⲙ", "ⲛ", "ⲝ", "ⲟ", "ⲡ", "ⲣ", "ⲥ", "ⲧ", "ⲩ", "ⲫ", "ⲭ", "ⲯ", "ⲱ", "ⲳ",
      "ⲵ", "ⲷ", "ⲹ", "ⲻ", "ⲽ", "ⲿ", "ⳁ", "ⳃ", "ⳅ", "ⳇ", "ⳉ", "ⳋ", "ⳍ", "ⳏ",
      "ⳑ", "ⳓ", "ⳕ", "ⳗ", "ⳙ", "ⳛ", "ⳝ", "ⳟ", "ⳡ", "ⳣ", "ⳬ", "ⳮ", "ⳳ",
      "U+A641", "U+A643", "U+A645", "U+A647", "U+A649", "U+A64B", "U+A64D",
      "U+A64F", "U+A651", "U+A653", "U+A655", "U+A657", "U+A659", "U+A65B",
      "U+A65D", "U+A65F", "U+A661", "U+A663", "U+A665", "U+A667", "U+A669",
      "U+A66B", "U+A66D", "ꚁ", "ꚃ", "ꚅ", "ꚇ", "ꚉ", "ꚋ", "ꚍ", "ꚏ", "ꚑ", "ꚓ",
      "ꚕ", "ꚗ", "ꚙ", "ꚛ", "U+A723", "U+A725", "U+A727", "U+A729", "U+A72B",
      "U+A72D", "U+A72F", "U+A733", "U+A735", "U+A737", "U+A739", "U+A73B",
      "U+A73D", "U+A73F", "U+A741", "U+A743", "U+A745", "U+A747", "U+A749",
      "U+A74B", "U+A74D", "U+A74F", "U+A751", "U+A753", "U+A755", "U+A757",
      "U+A759", "U+A75B", "U+A75D", "U+A75F", "U+A761", "U+A763", "U+A765",
      "U+A767", "U+A769", "U+A76B", "U+A76D", "U+A76F", "U+A77A", "U+A77C",
      "U+1D79", "U+A77F", "ꞁ", "ꞃ", "ꞅ", "ꞇ", "ꞌ", "U+0265", "ꞑ", "ꞓ", "ꞗ",
      "ꞙ", "ꞛ", "ꞝ", "ꞟ", "ꞡ", "ꞣ", "ꞥ", "ꞧ", "ꞩ", "U+0266", "U+025C",
      "U+0261", "U+026C", "U+026A", "ʞ", "ʇ", "ʝ", "U+AB53", "ꞵ", "ꞷ", "ꞹ",
      "ꞻ", "ꞽ", "ꞿ", "ꟁ", "ꟃ", "ꞔ", "ʂ", "ᶎ", "ꟈ", "ꟊ", "U+0264", "ꟍ", "꟏",
      "ꟑ", "ꟓ", "ꟕ", "ꟗ", "ꟙ", "ꟛ", "ƛ", "ꟶ", "U+FF41", "U+FF42", "U+FF43",
      "U+FF44", "U+FF45", "U+FF46", "U+FF47", "U+FF48", "U+FF49", "U+FF4A",
      "U+FF4B", "U+FF4C", "U+FF4D", "U+FF4E", "U+FF4F", "U+FF50", "U+FF51",
      "U+FF52", "U+FF53", "U+FF54", "U+FF55", "U+FF56", "U+FF57", "U+FF58",
      "U+FF59", "U+FF5A">>

\* the cased letters (Lowercase, Uppercase or titlecase) in neither table:
\* lower-case letters without a capital, and U+0130
OtherCased ==
    {"ª", "µ", "º", "U+0130", "U+0131", "U+0138", "U+0149", "U+017F", "ƍ",
      "ƪ", "ƫ", "ƺ", "ƾ", "ǰ", "U+0221", "U+0234", "U+0235", "U+0236",
      "U+0237", "U+0238", "U+0239", "U+0255", "U+0258", "U+025A", "U+025D",
      "U+025E", "U+025F", "U+0262", "U+0267", "U+026D", "U+026E", "U+0270",
      "U+0273", "U+0274", "U+0276", "U+0277", "U+0278", "U+0279", "U+027A",
      "U+027B", "U+027C", "U+027E", "U+027F", "ʁ", "ʄ", "ʅ", "ʆ", "ʍ", "ʎ",
      "ʏ", "ʐ", "ʑ", "ʓ", "ʖ", "ʗ", "ʘ", "ʙ", "ʚ", "ʛ", "ʜ", "ʟ", "ʠ",
      "ʡ", "ʢ", "ʣ", "ʤ", "ʥ", "ʦ", "ʧ", "ʨ", "ʩ", "ʪ", "ʫ", "ʬ", "ʭ", "ʮ",
      "ʯ", "ʰ", "ʱ", "ʲ", "ʳ", "ʴ", "ʵ", "ʶ", "ʷ", "ʸ", "ˀ", "ˁ", "ˠ", "ˡ",
      "ˢ", "ˣ", "ˤ", "U+0345", "U+037A", "ΐ", "ΰ", "ς", "ϐ", "ϑ", "ϒ", "ϓ",
      "ϔ", "ϕ", "ϖ", "ϰ", "ϱ", "ϵ", "ϼ", "U+0560", "և", "ֈ", "ᲀ", "ᲁ", "ᲂ",
      "ᲃ", "ᲄ", "ᲅ", "ᲆ", "ᲇ", "ᲈ", "U+1D00", "U+1D01", "U+1D02", "U+1D03",
      "U+1D04", "U+1D05", "U+1D06", "U+1D07", "U+1D08", "U+1D09", "U+1D0A",
      "U+1D0B", "U+1D0C", "U+1D0D", "U+1D0E", "U+1D0F", "U+1D10", "U+1D11",
      "U+1D12", "U+1D13", "U+1D14", "U+1D15", "U+1D16", "U+1D17", "U+1D18",
      "U+1D19", "U+1D1A", "U+1D1B", "U+1D1C", "U+1D1D", "U+1D1E", "U+1D1F",
      "U+1D20", "U+1D21", "U+1D22", "U+1D23", "U+1D24", "U+1D25", "U+1D26",
      "U+1D27", "U+1D28", "U+1D29", "U+1D2A", "U+1D2B", "U+1D2C", "U+1D2D",
      "U+1D2E", "U+1D2F", "U+1D30", "U+1D31", "U+1D32", "U+1D33", "U+1D34",
      "U+1D35", "U+1D36", "U+1D37", "U+1D38", "U+1D39", "U+1D3A", "U+1D3B",
      "U+1D3C", "U+1D3D", "U+1D3E", "U+1D3F", "U+1D40", "U+1D41", "U+1D42",
      "U+1D43", "U+1D44", "U+1D45", "U+1D46", "U+1D47", "U+1D48", "U+1D49",
      "U+1D4A", "U+1D4B", "U+1D4C", "U+1D4D", "U+1D4E", "U+1D4F", "U+1D50",
      "U+1D51", "U+1D52", "U+1D53", "U+1D54", "U+1D55", "U+1D56", "U+1D57",
      "U+1D58", "U+1D59", "U+1D5A", "U+1D5B", "U+1D5C", "U+1D5D", "U+1D5E",
      "U+1D5F", "U+1D60", "U+1D61", "U+1D62", "U+1D63", "U+1D64", "U+1D65",
      "U+1D66", "U+1D67", "U+1D68", "U+1D69", "U+1D6A", "U+1D6B", "U+1D6C",
      "U+1D6D", "U+1D6E", "U+1D6F", "U+1D70", "U+1D71", "U+1D72", "U+1D73",
      "U+1D74", "U+1D75", "U+1D76", "U+1D77", "U+1D78", "U+1D7A", "U+1D7B",
      "U+1D7C", "U+1D7E", "U+1D7F", "ᶀ", "ᶁ", "ᶂ", "ᶃ", "ᶄ", "ᶅ", "ᶆ", "ᶇ",
      "ᶈ", "ᶉ", "ᶊ", "ᶋ", "ᶌ", "ᶍ", "ᶏ", "ᶐ", "ᶑ", "ᶒ", "ᶓ", "ᶔ", "ᶕ", "ᶖ",
      "ᶗ", "ᶘ", "ᶙ", "ᶚ", "ᶛ", "ᶜ", "ᶝ", "ᶞ", "ᶟ", "ᶠ", "ᶡ", "ᶢ", "ᶣ", "ᶤ",
      "ᶥ", "ᶦ", "ᶧ", "ᶨ", "ᶩ", "ᶪ", "ᶫ", "ᶬ", "ᶭ", "ᶮ", "ᶯ", "ᶰ", "ᶱ", "ᶲ",
      "ᶳ", "ᶴ", "ᶵ", "ᶶ", "ᶷ", "ᶸ", "ᶹ", "ᶺ", "ᶻ", "ᶼ", "ᶽ", "ᶾ", "ᶿ", "ẖ",
      "ẗ", "ẘ", "ẙ", "ẚ", "ẛ", "ẜ", "ẝ", "ẟ", "U+1F50", "U+1F52", "U+1F54",
      "U+1F56", "ᾲ", "ᾴ", "ᾶ", "ᾷ", "ι", "ῂ", "ῄ", "ῆ", "ῇ", "ῒ", "ΐ", "ῖ",
      "ῗ", "ῢ", "ΰ", "ῤ", "ῦ", "ῧ", "ῲ", "ῴ", "ῶ", "ῷ", "U+2071", "U+207F",
      "ₐ", "ₑ", "ₒ", "ₓ", "ₔ", "ₕ", "ₖ", "ₗ", "ₘ", "ₙ", "ₚ", "ₛ", "ₜ",
      "U+2102", "U+2107", "U+210A", "U+210B", "U+210C", "U+210D", "U+210E",
      "U+210F", "U+2110", "U+2111", "U+2112", "U+2113", "U+2115", "U+2119",
      "U+211A", "U+211B", "U+211C", "U+211D", "U+2124", "U+2128", "U+212C",
      "U+212D", "U+212F", "U+2130", "U+2131", "U+2133", "U+2134", "U+2139",
      "U+213C", "U+213D", "U+213E", "U+213F", "U+2145", "U+2146", "U+2147",
      "U+2148", "U+2149", "U+2C71", "U+2C74", "U+2C77", "U+2C78", "U+2C79",
      "U+2C7A", "U+2C7B", "U+2C7C", "U+2C7D", "ⳤ", "ꚜ", "ꚝ", "U+A730",
      "U+A731", "U+A770", "U+A771", "U+A772", "U+A773", "U+A774", "U+A775",
      "U+A776", "U+A777", "U+A778", "ꞎ", "ꞕ", "ꞯ", "꟱", "ꟸ", "ꟹ", "ꟺ",
      "U+AB30", "U+AB31", "U+AB32", "U+AB33", "U+AB34", "U+AB35", "U+AB36",
      "U+AB37", "U+AB38", "U+AB39", "U+AB3A", "U+AB3B", "U+AB3C", "U+AB3D",
      "U+AB3E", "U+AB3F", "U+AB40", "U+AB41", "U+AB42", "U+AB43", "U+AB44",
      "U+AB45", "U+AB46", "U+AB47", "U+AB48", "U+AB49", "U+AB4A", "U+AB4B",
      "U+AB4C", "U+AB4D", "U+AB4E", "U+AB4F", "U+AB50", "U+AB51", "U+AB52",
      "U+AB54", "U+AB55", "U+AB56", "U+AB57", "U+AB58", "U+AB59", "U+AB5A",
      "U+AB5C", "U+AB5D", "U+AB5E", "U+AB5F", "U+AB60", "U+AB61", "U+AB62",
      "U+AB63", "U+AB64", "U+AB65", "U+AB66", "U+AB67", "U+AB68", "U+FB00",
      "U+FB01", "U+FB02", "U+FB03", "U+FB04", "U+FB05", "U+FB06", "U+FB13",
      "U+FB14", "U+FB15", "U+FB16", "U+FB17"}

\* the characters the Final_Sigma rule looks through (Case_Ignorable:
\* nonspacing and enclosing marks, format characters, modifier letters and
\* symbols, and the punctuation that may stand inside a word)
CaseIgnorable ==
    {"'", ".", ":", "^", "U+0060", "¨", "­", "¯", "´", "·", "¸", "ʰ", "ʱ",
      "ʲ", "ʳ", "ʴ", "ʵ", "ʶ", "ʷ", "ʸ", "ʹ", "ʺ", "ʻ", "ʼ", "ʽ", "ʾ", "ʿ",
      "ˀ", "ˁ", "˂", "˃", "˄", "˅", "ˆ", "ˇ", "ˈ", "ˉ", "ˊ", "ˋ", "ˌ", "ˍ",
      "ˎ", "ˏ", "ː", "ˑ", "˒", "˓", "˔", "˕", "˖", "˗", "˘", "˙", "˚", "˛",
      "˜", "˝", "˞", "˟", "ˠ", "ˡ", "ˢ", "ˣ", "ˤ", "˥", "˦", "˧", "˨", "˩",
      "˪", "˫", "ˬ", "˭", "ˮ", "˯", "˰", "˱", "˲", "˳", "˴", "˵", "˶", "˷",
      "˸", "˹", "˺", "˻", "˼", "˽", "˾", "˿", "U+0300", "U+0301", "U+0302",
      "U+0303", "U+0304", "U+0305", "U+0306", "U+0307", "U+0308", "U+0309",
      "U+030A", "U+030B", "U+030C", "U+030D", "U+030E", "U+030F", "U+0310",
      "U+0311", "U+0312", "U+0313", "U+0314", "U+0315", "U+0316", "U+0317",
      "U+0318", "U+0319", "U+031A", "U+031B", "U+031C", "U+031D", "U+031E",
      "U+031F", "U+0320", "U+0321", "U+0322", "U+0323", "U+0324", "U+0325",
      "U+0326", "U+0327", "U+0328", "U+0329", "U+032A", "U+032B", "U+032C",
      "U+032D", "U+032E", "U+032F", "U+0330", "U+0331", "U+0332", "U+0333",
      "U+0334", "U+0335", "U+0336", "U+0337", "U+0338", "U+0339", "U+033A",
      "U+033B", "U+033C", "U+033D", "U+033E", "U+033F", "U+0340", "U+0341",
      "U+0342", "U+0343", "U+0344", "U+0345", "U+0346", "U+0347", "U+0348",
      "U+0349", "U+034A", "U+034B", "U+034C", "U+034D", "U+034E", "U+034F",
      "U+0350", "U+0351", "U+0352", "U+0353", "U+0354", "U+0355", "U+0356",
      "U+0357", "U+0358", "U+0359", "U+035A", "U+035B", "U+035C", "U+035D",
      "U+035E", "U+035F", "U+0360", "U+0361", "U+0362", "U+0363", "U+0364",
      "U+0365", "U+0366", "U+0367", "U+0368", "U+0369", "U+036A", "U+036B",
      "U+036C", "U+036D", "U+036E", "U+036F", "U+0374", "U+0375", "U+037A",
      "΄", "΅", "·", "҃", "҄", "҅", "҆", "҇", "҈", "҉", "U+0559", "U+055F",
      "֑", "֒", "֓", "֔", "֕", "֖", "֗", "֘", "֙", "֚", "֛", "֜", "֝", "֞",
      "֟", "֠", "֡", "֢", "֣", "֤", "֥", "֦", "֧", "֨", "֩", "֪", "֫", "֬",
      "֭", "֮", "֯", "ְ", "ֱ", "ֲ", "ֳ", "ִ", "ֵ", "ֶ", "ַ", "ָ", "ֹ", "ֺ",
      "ֻ", "ּ", "ֽ", "ֿ", "ׁ", "ׂ", "ׄ", "ׅ", "ׇ", "״", "U+0600", "U+0601",
      "U+0602", "U+0603", "U+0604", "U+0605", "U+0610", "U+0611", "U+0612",
      "U+0613", "U+0614", "U+0615", "U+0616", "U+0617", "U+0618", "U+0619",
      "U+061A", "U+061C", "U+0640", "U+064B", "U+064C", "U+064D", "U+064E",
      "U+064F", "U+0650", "U+0651", "U+0652", "U+0653", "U+0654", "U+0655",
      "U+0656", "U+0657", "U+0658", "U+0659", "U+065A", "U+065B", "U+065C",
      "U+065D", "U+065E", "U+065F", "U+0670", "ۖ", "ۗ", "ۘ", "ۙ", "ۚ", "ۛ",
      "ۜ", "۝", "۟", "۠", "ۡ", "ۢ", "ۣ", "ۤ", "ۥ", "ۦ", "ۧ", "ۨ", "۪", "۫",
      "۬", "ۭ", "U+070F", "U+0711", "U+0730", "U+0731", "U+0732", "U+0733",
      "U+0734", "U+0735", "U+0736", "U+0737", "U+0738", "U+0739", "U+073A",
      "U+073B", "U+073C", "U+073D", "U+073E", "U+073F", "U+0740", "U+0741",
      "U+0742", "U+0743", "U+0744", "U+0745", "U+0746", "U+0747", "U+0748",
      "U+0749", "U+074A", "ަ", "ާ", "ި", "ީ", "ު", "ޫ", "ެ", "ޭ", "ޮ", "ޯ",
      "ް", "߫", "߬", "߭", "߮", "߯", "߰", "߱", "߲", "߳", "ߴ", "ߵ", "ߺ", "߽",
      "U+0816", "U+0817", "U+0818", "U+0819", "U+081A", "U+081B", "U+081C",
      "U+081D", "U+081E", "U+081F", "U+0820", "U+0821", "U+0822", "U+0823",
      "U+0824", "U+0825", "U+0826", "U+0827", "U+0828", "U+0829", "U+082A",
      "U+082B", "U+082C", "U+082D", "U+0859", "U+085A", "U+085B", "࢈", "࢐",
      "࢑", "ࢗ", "࢘", "࢙", "࢚", "࢛", "࢜", "࢝", "࢞", "࢟", "ࣉ", "࣊", "࣋", "࣌",
      "࣍", "࣎", "࣏", "࣐", "࣑", "࣒", "࣓", "ࣔ", "ࣕ", "ࣖ", "ࣗ", "ࣘ", "ࣙ", "ࣚ",
      "ࣛ", "ࣜ", "ࣝ", "ࣞ", "ࣟ", "࣠", "࣡", "࣢", "ࣣ", "ࣤ", "ࣥ", "ࣦ", "ࣧ", "ࣨ",
      "ࣩ", "࣪", "࣫", "࣬", "࣭", "࣮", "࣯", "ࣰ", "ࣱ", "ࣲ", "ࣳ", "ࣴ", "ࣵ", "ࣶ",
      "ࣷ", "ࣸ", "ࣹ", "ࣺ", "ࣻ", "ࣼ", "ࣽ", "ࣾ", "ࣿ", "U+0900", "U+0901",
      "U+0902", "U+093A", "U+093C", "U+0941", "U+0942", "U+0943", "U+0944",
      "U+0945", "U+0946", "U+0947", "U+0948", "U+094D", "U+0951", "U+0952",
      "U+0953", "U+0954", "U+0955", "U+0956", "U+0957", "U+0962", "U+0963",
      "U+0971", "ঁ", "়", "ু", "ূ", "ৃ", "ৄ", "্", "ৢ", "ৣ", "৾", "U+0A01",
      "U+0A02", "U+0A3C", "U+0A41", "U+0A42", "U+0A47", "U+0A48", "U+0A4B",
      "U+0A4C", "U+0A4D", "U+0A51", "U+0A70", "U+0A71", "U+0A75", "ઁ", "ં",
      "઼", "ુ", "ૂ", "ૃ", "ૄ", "ૅ", "ે", "ૈ", "્", "ૢ", "ૣ", "ૺ", "ૻ", "ૼ",
      "૽", "૾", "૿", "U+0B01", "U+0B3C", "U+0B3F", "U+0B41", "U+0B42",
      "U+0B43", "U+0B44", "U+0B4D", "U+0B55", "U+0B56", "U+0B62", "U+0B63",
      "ஂ", "ீ", "்", "U+0C00", "U+0C04", "U+0C3C", "U+0C3E", "U+0C3F",
      "U+0C40", "U+0C46", "U+0C47", "U+0C48", "U+0C4A", "U+0C4B", "U+0C4C",
      "U+0C4D", "U+0C55", "U+0C56", "U+0C62", "U+0C63", "ಁ", "಼", "ಿ", "ೆ",
      "ೌ", "್", "ೢ", "ೣ", "U+0D00", "U+0D01", "U+0D3B", "U+0D3C", "U+0D41",
      "U+0D42", "U+0D43", "U+0D44", "U+0D4D", "U+0D62", "U+0D63", "ඁ", "්",
      "ි", "ී", "ු", "ූ", "U+0E31", "U+0E34", "U+0E35", "U+0E36", "U+0E37",
      "U+0E38", "U+0E39", "U+0E3A", "U+0E46", "U+0E47", "U+0E48", "U+0E49",
      "U+0E4A", "U+0E4B", "U+0E4C", "U+0E4D", "U+0E4E", "ັ", "ິ", "ີ", "ຶ",
      "ື", "ຸ", "ູ", "຺", "ົ", "ຼ", "ໆ", "່", "້", "໊", "໋", "໌", "ໍ", "໎",
      "U+0F18", "U+0F19", "U+0F35", "U+0F37", "U+0F39", "U+0F71", "U+0F72",
      "U+0F73", "U+0F74", "U+0F75", "U+0F76", "U+0F77", "U+0F78", "U+0F79",
      "U+0F7A", "U+0F7B", "U+0F7C", "U+0F7D", "U+0F7E", "ྀ", "ཱྀ", "ྂ", "ྃ",
      "྄", "྆", "྇", "ྍ", "ྎ", "ྏ", "ྐ", "ྑ", "ྒ", "ྒྷ", "ྔ", "ྕ", "ྖ", "ྗ",
      "ྙ", "ྚ", "ྛ", "ྜ", "ྜྷ", "ྞ", "ྟ", "ྠ", "ྡ", "ྡྷ", "ྣ", "ྤ", "ྥ", "ྦ",
      "ྦྷ", "ྨ", "ྩ", "ྪ", "ྫ", "ྫྷ", "ྭ", "ྮ", "ྯ", "ྰ", "ྱ", "ྲ", "ླ", "ྴ",
      "ྵ", "ྶ", "ྷ", "ྸ", "ྐྵ", "ྺ", "ྻ", "ྼ", "࿆", "U+102D", "U+102E",
      "U+102F", "U+1030", "U+1032", "U+1033", "U+1034", "U+1035", "U+1036",
      "U+1037", "U+1039", "U+103A", "U+103D", "U+103E", "U+1058", "U+1059",
      "U+105E", "U+105F", "U+1060", "U+1071", "U+1072", "U+1073", "U+1074",
      "ႂ", "ႅ", "ႆ", "ႍ", "ႝ", "ჼ", "U+135D", "U+135E", "U+135F", "U+1712",
      "U+1713", "U+1714", "U+1732", "U+1733", "U+1752", "U+1753", "U+1772",
      "U+1773", "឴", "឵", "ិ", "ី", "ឹ", "ឺ", "ុ", "ូ", "ួ", "ំ", "៉", "៊",
      "់", "៌", "៍", "៎", "៏", "័", "៑", "្", "៓", "ៗ", "៝", "U+180B",
      "U+180C", "U+180D", "U+180E", "U+180F", "U+1843", "ᢅ", "ᢆ", "ᢩ",
      "U+1920", "U+1921", "U+1922", "U+1927", "U+1928", "U+1932", "U+1939",
      "U+193A", "U+193B", "U+1A17", "U+1A18", "U+1A1B", "U+1A56", "U+1A58",
      "U+1A59", "U+1A5A", "U+1A5B", "U+1A5C", "U+1A5D", "U+1A5E", "U+1A60",
      "U+1A62", "U+1A65", "U+1A66", "U+1A67", "U+1A68", "U+1A69", "U+1A6A",
      "U+1A6B", "U+1A6C", "U+1A73", "U+1A74", "U+1A75", "U+1A76", "U+1A77",
      "U+1A78", "U+1A79", "U+1A7A", "U+1A7B", "U+1A7C", "U+1A7F", "ᪧ", "᪰",
      "᪱", "᪲", "᪳", "᪴", "᪵", "᪶", "᪷", "᪸", "᪹", "᪺", "᪻", "᪼", "᪽", "᪾",
      "ᪿ", "ᫀ", "᫁", "᫂", "᫃", "᫄", "᫅", "᫆", "᫇", "᫈", "᫉", "᫊", "᫋", "ᫌ",
      "ᫍ", "ᫎ", "᫏", "᫐", "᫑", "᫒", "᫓", "᫔", "᫕", "᫖", "᫗", "᫘", "᫙", "᫚",
      "᫛", "᫜", "᫝", "᫠", "᫡", "᫢", "᫣", "᫤", "᫥", "᫦", "᫧", "᫨", "᫩", "᫪",
      "᫫", "U+1B00", "U+1B01", "U+1B02", "U+1B03", "U+1B34", "U+1B36",
      "U+1B37", "U+1B38", "U+1B39", "U+1B3A", "U+1B3C", "U+1B42", "U+1B6B",
      "U+1B6C", "U+1B6D", "U+1B6E", "U+1B6F", "U+1B70", "U+1B71", "U+1B72",
      "U+1B73", "ᮀ", "ᮁ", "ᮢ", "ᮣ", "ᮤ", "ᮥ", "ᮨ", "ᮩ", "᮫", "ᮬ", "ᮭ", "᯦",
      "ᯨ", "ᯩ", "ᯭ", "ᯯ", "ᯰ", "ᯱ", "U+1C2C", "U+1C2D", "U+1C2E", "U+1C2F",
      "U+1C30", "U+1C31", "U+1C32", "U+1C33", "U+1C36", "U+1C37", "U+1C78",
      "U+1C79", "U+1C7A", "U+1C7B", "U+1C7C", "U+1C7D", "᳐", "᳑", "᳒", "᳔",
      "᳕", "᳖", "᳗", "᳘", "᳙", "᳚", "᳛", "᳜", "᳝", "᳞", "᳟", "᳠", "᳢", "᳣",
      "᳤", "᳥", "᳦", "᳧", "᳨", "᳭", "᳴", "᳸", "᳹", "U+1D2C", "U+1D2D",
      "U+1D2E", "U+1D2F", "U+1D30", "U+1D31", "U+1D32", "U+1D33", "U+1D34",
      "U+1D35", "U+1D36", "U+1D37", "U+1D38", "U+1D39", "U+1D3A", "U+1D3B",
      "U+1D3C", "U+1D3D", "U+1D3E", "U+1D3F", "U+1D40", "U+1D41", "U+1D42",
      "U+1D43", "U+1D44", "U+1D45", "U+1D46", "U+1D47", "U+1D48", "U+1D49",
      "U+1D4A", "U+1D4B", "U+1D4C", "U+1D4D", "U+1D4E", "U+1D4F", "U+1D50",
      "U+1D51", "U+1D52", "U+1D53", "U+1D54", "U+1D55", "U+1D56", "U+1D57",
      "U+1D58", "U+1D59", "U+1D5A", "U+1D5B", "U+1D5C", "U+1D5D", "U+1D5E",
      "U+1D5F", "U+1D60", "U+1D61", "U+1D62", "U+1D63", "U+1D64", "U+1D65",
      "U+1D66", "U+1D67", "U+1D68", "U+1D69", "U+1D6A", "U+1D78", "ᶛ", "ᶜ",
      "ᶝ", "ᶞ", "ᶟ", "ᶠ", "ᶡ", "ᶢ", "ᶣ", "ᶤ", "ᶥ", "ᶦ", "ᶧ", "ᶨ", "ᶩ", "ᶪ",
      "ᶫ", "ᶬ", "ᶭ", "ᶮ", "ᶯ", "ᶰ", "ᶱ", "ᶲ", "ᶳ", "ᶴ", "ᶵ", "ᶶ", "ᶷ", "ᶸ",
      "ᶹ", "ᶺ", "ᶻ", "ᶼ", "ᶽ", "ᶾ", "ᶿ", "᷀", "᷁", "᷂", "᷃", "᷄", "᷅", "᷆",
      "᷇", "᷈", "᷉", "᷊", "᷋", "᷌", "᷍", "᷎", "᷏", "᷐", "᷑", "᷒", "ᷓ", "ᷔ",
      "ᷕ", "ᷖ", "ᷗ", "ᷘ", "ᷙ", "ᷚ", "ᷛ", "ᷜ", "ᷝ", "ᷞ", "ᷟ", "ᷠ", "ᷡ", "ᷢ",
      "ᷣ", "ᷤ", "ᷥ", "ᷦ", "ᷧ", "ᷨ", "ᷩ", "ᷪ", "ᷫ", "ᷬ", "ᷭ", "ᷮ", "ᷯ", "ᷰ",
      "ᷱ", "ᷲ", "ᷳ", "ᷴ", "᷵", "᷶", "᷷", "᷸", "᷹", "᷺", "᷻", "᷼", "᷽", "᷾",
      "᷿", "᾽", "᾿", "῀", "῁", "῍", "῎", "῏", "῝", "῞", "῟", "῭", "΅", "`",
      "´", "῾", "U+200B", "U+200C", "U+200D", "U+200E", "U+200F", "U+2018",
      "U+2019", "U+2024", "U+2027", "U+202A", "U+202B", "U+202C", "U+202D",
      "U+202E", "U+2060", "U+2061", "U+2062", "U+2063", "U+2064", "U+2066",
      "U+2067", "U+2068", "U+2069", "U+206A", "U+206B", "U+206C", "U+206D",
      "U+206E", "U+206F", "U+2071", "U+207F", "ₐ", "ₑ", "ₒ", "ₓ", "ₔ", "ₕ",
      "ₖ", "ₗ", "ₘ", "ₙ", "ₚ", "ₛ", "ₜ", "⃐", "⃑", "⃒", "⃓", "⃔", "⃕", "⃖",
      "⃗", "⃘", "⃙", "⃚", "⃛", "⃜", "⃝", "⃞", "⃟", "⃠", "⃡", "⃢", "⃣", "⃤",
      "⃥", "⃦", "⃧", "⃨", "⃩", "⃪", "⃫", "⃬", "⃭", "⃮", "⃯", "⃰", "U+2C7C",
      "U+2C7D", "⳯", "⳰", "⳱", "U+2D6F", "U+2D7F", "ⷠ", "ⷡ", "ⷢ", "ⷣ", "ⷤ",
      "ⷥ", "ⷦ", "ⷧ", "ⷨ", "ⷩ", "ⷪ", "ⷫ", "ⷬ", "ⷭ", "ⷮ", "ⷯ", "ⷰ", "ⷱ", "ⷲ",
      "ⷳ", "ⷴ", "ⷵ", "ⷶ", "ⷷ", "ⷸ", "ⷹ", "ⷺ", "ⷻ", "ⷼ", "ⷽ", "ⷾ", "ⷿ",
      "U+2E2F", "U+3005", "U+302A", "U+302B", "U+302C", "U+302D", "U+3031",
      "U+3032", "U+3033", "U+3034", "U+3035", "U+303B", "゙", "゚", "゛", "゜",
      "ゝ", "ゞ", "ー", "ヽ", "ヾ", "U+A015", "ꓸ", "ꓹ", "ꓺ", "ꓻ", "ꓼ", "ꓽ",
      "U+A60C", "U+A66F", "U+A670", "U+A671", "U+A672", "U+A674", "U+A675",
      "U+A676", "U+A677", "U+A678", "U+A679", "U+A67A", "U+A67B", "U+A67C",
      "U+A67D", "U+A67F", "ꚜ", "ꚝ", "ꚞ", "ꚟ", "꛰", "꛱", "U+A700", "U+A701",
      "U+A702", "U+A703", "U+A704", "U+A705", "U+A706", "U+A707", "U+A708",
      "U+A709", "U+A70A", "U+A70B", "U+A70C", "U+A70D", "U+A70E", "U+A70F",
      "U+A710", "U+A711", "U+A712", "U+A713", "U+A714", "U+A715", "U+A716",
      "U+A717", "U+A718", "U+A719", "U+A71A", "U+A71B", "U+A71C", "U+A71D",
      "U+A71E", "U+A71F", "U+A720", "U+A721", "U+A770", "ꞈ", "꞉", "꞊", "꟱",
      "ꟲ", "ꟳ", "ꟴ", "ꟸ", "ꟹ", "U+A802", "U+A806", "U+A80B", "U+A825",
      "U+A826", "U+A82C", "꣄", "ꣅ", "꣠", "꣡", "꣢", "꣣", "꣤", "꣥", "꣦", "꣧",
      "꣨", "꣩", "꣪", "꣫", "꣬", "꣭", "꣮", "꣯", "꣰", "꣱", "ꣿ", "U+A926",
      "U+A927", "U+A928", "U+A929", "U+A92A", "U+A92B", "U+A92C", "U+A92D",
      "U+A947", "U+A948", "U+A949", "U+A94A", "U+A94B", "U+A94C", "U+A94D",
      "U+A94E", "U+A94F", "U+A950", "U+A951", "ꦀ", "ꦁ", "ꦂ", "꦳", "ꦶ", "ꦷ",
      "ꦸ", "ꦹ", "ꦼ", "ꦽ", "ꧏ", "ꧥ", "ꧦ", "U+AA29", "U+AA2A", "U+AA2B",
      "U+AA2C", "U+AA2D", "U+AA2E", "U+AA31", "U+AA32", "U+AA35", "U+AA36",
      "U+AA43", "U+AA4C", "U+AA70", "U+AA7C", "ꪰ", "ꪲ", "ꪳ", "ꪴ", "ꪷ", "ꪸ",
      "ꪾ", "꪿", "꫁", "ꫝ", "ꫬ", "ꫭ", "ꫳ", "ꫴ", "꫶", "U+AB5B", "U+AB5C",
      "U+AB5D", "U+AB5E", "U+AB5F", "U+AB69", "U+AB6A", "U+AB6B", "ꯥ", "ꯨ",
      "꯭", "U+FB1E", "﮲", "﮳", "﮴", "﮵", "﮶", "﮷", "﮸", "﮹", "﮺", "﮻", "﮼",
      "﮽", "﮾", "﮿", "﯀", "﯁", "﯂", "U+FE00", "U+FE01", "U+FE02", "U+FE03",
      "U+FE04", "U+FE05", "U+FE06", "U+FE07", "U+FE08", "U+FE09", "U+FE0A",
      "U+FE0B", "U+FE0C", "U+FE0D", "U+FE0E", "U+FE0F", "U+FE13", "U+FE20",
      "U+FE21", "U+FE22", "U+FE23", "U+FE24", "U+FE25", "U+FE26", "U+FE27",
      "U+FE28", "U+FE29", "U+FE2A", "U+FE2B", "U+FE2C", "U+FE2D", "U+FE2E",
      "U+FE2F", "U+FE52", "U+FE55", "﻿", "U+FF07", "U+FF0E", "U+FF1A",
      "U+FF3E", "U+FF40", "U+FF70", "ﾞ", "ﾟ", "￣", "￹", "￺", "￻"}

\* the letters of the supplementary planes with a lower-case form, as ranges
\* of code points <<first, last, d>>: the lower-case form of c is c + d
AstralCapitals ==
    {<<\H10400, \H10427, 40>>, <<\H104B0, \H104D3, 40>>,
      <<\H10570, \H1057A, 39>>, <<\H1057C, \H1058A, 39>>,
      <<\H1058C, \H10592, 39>>, <<\H10594, \H10595, 39>>,
      <<\H10C80, \H10CB2, 64>>, <<\H10D50, \H10D65, 32>>,
      <<\H118A0, \H118BF, 32>>, <<\H16E40, \H16E5F, 32>>,
      <<\H16EA0, \H16EB8, 27>>, <<\H1E900, \H1E921, 34>>}

\* the cased letters of the supplementary planes, as ranges <<first, last>>
AstralCased ==
    {<<\H10400, \H1044F>>, <<\H104B0, \H104D3>>, <<\H104D8, \H104FB>>,
      <<\H10570, \H1057A>>, <<\H1057C, \H1058A>>, <<\H1058C, \H10592>>,
      <<\H10594, \H10595>>, <<\H10597, \H105A1>>, <<\H105A3, \H105B1>>,
      <<\H105B3, \H105B9>>, <<\H105BB, \H105BC>>, <<\H10780, \H10780>>,
      <<\H10783, \H10785>>, <<\H10787, \H107B0>>, <<\H107B2, \H107BA>>,
      <<\H10C80, \H10CB2>>, <<\H10CC0, \H10CF2>>, <<\H10D50, \H10D65>>,
      <<\H10D70, \H10D85>>, <<\H118A0, \H118DF>>, <<\H16E40, \H16E7F>>,
      <<\H16EA0, \H16EB8>>, <<\H16EBB, \H16ED3>>, <<\H1D400, \H1D454>>,
      <<\H1D456, \H1D49C>>, <<\H1D49E, \H1D49F>>, <<\H1D4A2, \H1D4A2>>,
      <<\H1D4A5, \H1D4A6>>, <<\H1D4A9, \H1D4AC>>, <<\H1D4AE, \H1D4B9>>,
      <<\H1D4BB, \H1D4BB>>, <<\H1D4BD, \H1D4C3>>, <<\H1D4C5, \H1D505>>,
      <<\H1D507, \H1D50A>>, <<\H1D50D, \H1D514>>, <<\H1D516, \H1D51C>>,
      <<\H1D51E, \H1D539>>, <<\H1D53B, \H1D53E>>, <<\H1D540, \H1D544>>,
      <<\H1D546, \H1D546>>, <<\H1D54A, \H1D550>>, <<\H1D552, \H1D6A5>>,
      <<\H1D6A8, \H1D6C0>>, <<\H1D6C2, \H1D6DA>>, <<\H1D6DC, \H1D6FA>>,
      <<\H1D6FC, \H1D714>>, <<\H1D716, \H1D734>>, <<\H1D736, \H1D74E>>,
      <<\H1D750, \H1D76E>>, <<\H1D770, \H1D788>>, <<\H1D78A, \H1D7A8>>,
      <<\H1D7AA, \H1D7C2>>, <<\H1D7C4, \H1D7CB>>, <<\H1DF00, \H1DF09>>,
      <<\H1DF0B, \H1DF1E>>, <<\H1DF25, \H1DF2A>>, <<\H1E030, \H1E06D>>,
      <<\H1E900, \H1E943>>, <<\H1F130, \H1F149>>, <<\H1F150, \H1F169>>,
      <<\H1F170, \H1F189>>}

\* the case-ignorable characters of the supplementary planes
AstralCaseIgnorable ==
    {<<\H101FD, \H101FD>>, <<\H102E0, \H102E0>>, <<\H10376, \H1037A>>,
      <<\H10780, \H10785>>, <<\H10787, \H107B0>>, <<\H107B2, \H107BA>>,
      <<\H10A01, \H10A03>>, <<\H10A05, \H10A06>>, <<\H10A0C, \H10A0F>>,
      <<\H10A38, \H10A3A>>, <<\H10A3F, \H10A3F>>, <<\H10AE5, \H10AE6>>,
      <<\H10D24, \H10D27>>, <<\H10D4E, \H10D4E>>, <<\H10D69, \H10D6D>>,
      <<\H10D6F, \H10D6F>>, <<\H10EAB, \H10EAC>>, <<\H10EC5, \H10EC5>>,
      <<\H10EFA, \H10EFF>>, <<\H10F46, \H10F50>>, <<\H10F82, \H10F85>>,
      <<\H11001, \H11001>>, <<\H11038, \H11046>>, <<\H11070, \H11070>>,
      <<\H11073, \H11074>>, <<\H1107F, \H11081>>, <<\H110B3, \H110B6>>,
      <<\H110B9, \H110BA>>, <<\H110BD, \H110BD>>, <<\H110C2, \H110C2>>,
      <<\H110CD, \H110CD>>, <<\H11100, \H11102>>, <<\H11127, \H1112B>>,
      <<\H1112D, \H11134>>, <<\H11173, \H11173>>, <<\H11180, \H11181>>,
      <<\H111B6, \H111BE>>, <<\H111C9, \H111CC>>, <<\H111CF, \H111CF>>,
      <<\H1122F, \H11231>>, <<\H11234, \H11234>>, <<\H11236, \H11237>>,
      <<\H1123E, \H1123E>>, <<\H11241, \H11241>>, <<\H112DF, \H112DF>>,
      <<\H112E3, \H112EA>>, <<\H11300, \H11301>>, <<\H1133B, \H1133C>>,
      <<\H11340, \H11340>>, <<\H11366, \H1136C>>, <<\H11370, \H11374>>,
      <<\H113BB, \H113C0>>, <<\H113CE, \H113CE>>, <<\H113D0, \H113D0>>,
      <<\H113D2, \H113D2>>, <<\H113E1, \H113E2>>, <<\H11438, \H1143F>>,
      <<\H11442, \H11444>>, <<\H11446, \H11446>>, <<\H1145E, \H1145E>>,
      <<\H114B3, \H114B8>>, <<\H114BA, \H114BA>>, <<\H114BF, \H114C0>>,
      <<\H114C2, \H114C3>>, <<\H115B2, \H115B5>>, <<\H115BC, \H115BD>>,
      <<\H115BF, \H115C0>>, <<\H115DC, \H115DD>>, <<\H11633, \H1163A>>,
      <<\H1163D, \H1163D>>, <<\H1163F, \H11640>>, <<\H116AB, \H116AB>>,
      <<\H116AD, \H116AD>>, <<\H116B0, \H116B5>>, <<\H116B7, \H116B7>>,
      <<\H1171D, \H1171D>>, <<\H1171F, \H1171F>>, <<\H11722, \H11725>>,
      <<\H11727, \H1172B>>, <<\H1182F, \H11837>>, <<\H11839, \H1183A>>,
      <<\H1193B, \H1193C>>, <<\H1193E, \H1193E>>, <<\H11943, \H11943>>,
      <<\H119D4, \H119D7>>, <<\H119DA, \H119DB>>, <<\H119E0, \H119E0>>,
      <<\H11A01, \H11A0A>>, <<\H11A33, \H11A38>>, <<\H11A3B, \H11A3E>>,
      <<\H11A47, \H11A47>>, <<\H11A51, \H11A56>>, <<\H11A59, \H11A5B>>,
      <<\H11A8A, \H11A96>>, <<\H11A98, \H11A99>>, <<\H11B60, \H11B60>>,
      <<\H11B62, \H11B64>>, <<\H11B66, \H11B66>>, <<\H11C30, \H11C36>>,
      <<\H11C38, \H11C3D>>, <<\H11C3F, \H11C3F>>, <<\H11C92, \H11CA7>>,
      <<\H11CAA, \H11CB0>>, <<\H11CB2, \H11CB3>>, <<\H11CB5, \H11CB6>>,
      <<\H11D31, \H11D36>>, <<\H11D3A, \H11D3A>>, <<\H11D3C, \H11D3D>>,
      <<\H11D3F, \H11D45>>, <<\H11D47, \H11D47>>, <<\H11D90, \H11D91>>,
      <<\H11D95, \H11D95>>, <<\H11D97, \H11D97>>, <<\H11DD9, \H11DD9>>,
      <<\H11EF3, \H11EF4>>, <<\H11F00, \H11F01>>, <<\H11F36, \H11F3A>>,
      <<\H11F40, \H11F40>>, <<\H11F42, \H11F42>>, <<\H11F5A, \H11F5A>>,
      <<\H13430, \H13440>>, <<\H13447, \H13455>>, <<\H1611E, \H16129>>,
      <<\H1612D, \H1612F>>, <<\H16AF0, \H16AF4>>, <<\H16B30, \H16B36>>,
      <<\H16B40, \H16B43>>, <<\H16D40, \H16D42>>, <<\H16D6B, \H16D6C>>,
      <<\H16F4F, \H16F4F>>, <<\H16F8F, \H16F9F>>, <<\H16FE0, \H16FE1>>,
      <<\H16FE3, \H16FE4>>, <<\H16FF2, \H16FF3>>, <<\H1AFF0, \H1AFF3>>,
      <<\H1AFF5, \H1AFFB>>, <<\H1AFFD, \H1AFFE>>, <<\H1BC9D, \H1BC9E>>,
      <<\H1BCA0, \H1BCA3>>, <<\H1CF00, \H1CF2D>>, <<\H1CF30, \H1CF46>>,
      <<\H1D167, \H1D169>>, <<\H1D173, \H1D182>>, <<\H1D185, \H1D18B>>,
      <<\H1D1AA, \H1D1AD>>, <<\H1D242, \H1D244>>, <<\H1DA00, \H1DA36>>,
      <<\H1DA3B, \H1DA6C>>, <<\H1DA75, \H1DA75>>, <<\H1DA84, \H1DA84>>,
      <<\H1DA9B, \H1DA9F>>, <<\H1DAA1, \H1DAAF>>, <<\H1E000, \H1E006>>,
      <<\H1E008, \H1E018>>, <<\H1E01B, \H1E021>>, <<\H1E023, \H1E024>>,
      <<\H1E026, \H1E02A>>, <<\H1E030, \H1E06D>>, <<\H1E08F, \H1E08F>>,
      <<\H1E130, \H1E13D>>, <<\H1E2AE, \H1E2AE>>, <<\H1E2EC, \H1E2EF>>,
      <<\H1E4EB, \H1E4EF>>, <<\H1E5EE, \H1E5EF>>, <<\H1E6E3, \H1E6E3>>,
      <<\H1E6E6, \H1E6E6>>, <<\H1E6EE, \H1E6EF>>, <<\H1E6F5, \H1E6F5>>,
      <<\H1E6FF, \H1E6FF>>, <<\H1E8D0, \H1E8D6>>, <<\H1E944, \H1E94B>>,
      <<\H1F3FB, \H1F3FF>>, <<\HE0001, \HE0001>>, <<\HE0020, \HE007F>>,
      <<\HE0100, \HE01EF>>}

\* the letters with a lower-case form, and every cased letter
Capitals == { Upper[i] : i \in 1..Len(Upper) }
Cased == Capitals \cup { Lower[i] : i \in 1..Len(Lower) } \cup OtherCased
isCased(c) == c \in Cased

\* the name of the code unit n
HexDigits ==
    <<"0", "1", "2", "3", "4", "5", "6", "7", "8", "9", "A", "B", "C", "D", "E",
      "F">>
hexDigit(n) == HexDigits[(n % 16) + 1]
unitName(n) ==
    "U+" \o hexDigit(n \div 4096) \o hexDigit(n \div 256) \o hexDigit(n \div 16)
         \o hexDigit(n)
\* the surrogates by their values, and the value of a surrogate
Surrogates == [n \in \HD800..\HDFFF |-> unitName(n)]
HighSurrogates == { Surrogates[n] : n \in \HD800..\HDBFF }
LowSurrogates == { Surrogates[n] : n \in \HDC00..\HDFFF }
unitValue(u) == CHOOSE n \in \HD800..\HDFFF : Surrogates[n] = u

\* the code point a surrogate pair stands for, and the pair of a code point
codePoint(hi, lo) ==
    \H10000 + (unitValue(hi) - \HD800) * \H400 + (unitValue(lo) - \HDC00)
surrogatePair(cp) ==
    <<unitName(\HD800 + ((cp - \H10000) \div \H400)),
      unitName(\HDC00 + ((cp - \H10000) % \H400))>>

\* the characters of s from unit i on, each the sequence of its units: a high
\* surrogate and the low surrogate after it are one character, any other
\* unit (a surrogate alone too) is a character of its own
RECURSIVE codePointsFrom(_, _)
codePointsFrom(s, i) ==
    IF i > Len(s) THEN <<>>
    ELSE IF i < Len(s) /\ s[i] \in HighSurrogates /\ s[i + 1] \in LowSurrogates
    THEN <<SubSeq(s, i, i + 1)>> \o codePointsFrom(s, i + 2)
    ELSE <<SubSeq(s, i, i)>> \o codePointsFrom(s, i + 1)
codePoints(s) == codePointsFrom(s, 1)

inRanges(cp, ranges) == \E r \in ranges : r[1] <= cp /\ cp <= r[2]
isCasedLetter(p) ==
    IF Len(p) = 1 THEN isCased(p[1])
    ELSE inRanges(codePoint(p[1], p[2]), AstralCased)
isCaseIgnorable(p) ==
    IF Len(p) = 1 THEN p[1] \in CaseIgnorable
    ELSE inRanges(codePoint(p[1], p[2]), AstralCaseIgnorable)

\* WhiteSpace and LineTerminator: what trim() strips and parseInt skips
WhiteSpace == {" ", "\t", "\n", "\r", "\f", "", " ", " ", "﻿",
               "U+2000", "U+2001", "U+2002", "U+2003", "U+2004", "U+2005",
               "U+2006", "U+2007", "U+2008", "U+2009", "U+200A", "U+2028",
               "U+2029", "U+202F", "U+205F", "U+3000"}
isSpace(c) == c \in WhiteSpace

\* The character p[i] of the characters p is a capital sigma at the end of a
\* word: going back from it over the case-ignorable characters a cased letter
\* is met, going on from it over the case-ignorable characters none is
finalSigma(p, i) ==
    /\ p[i] = <<"Σ">>
    /\ \E j \in 1..(i - 1) :
         /\ ~isCaseIgnorable(p[j])
         /\ isCasedLetter(p[j])
         /\ \A k \in (j + 1)..(i - 1) : isCaseIgnorable(p[k])
    /\ ~\E j \in (i + 1)..Len(p) :
         /\ ~isCaseIgnorable(p[j])
         /\ isCasedLetter(p[j])
         /\ \A k \in (i + 1)..(j - 1) : isCaseIgnorable(p[k])

\* the one-unit lower-case form of the unit c; c itself when it has none
toLowerChar(c) ==
    IF c \in Capitals
    THEN Lower[CHOOSE i \in 1..Len(Upper) : Upper[i] = c]
    ELSE c

\* the lower-case form of the code point cp of a supplementary plane
toLowerAstral(cp) ==
    IF \E r \in AstralCapitals : r[1] <= cp /\ cp <= r[2]
    THEN cp + (CHOOSE r \in AstralCapitals : r[1] <= cp /\ cp <= r[2])[3]
    ELSE cp

\* the units the character p[i] becomes: the final sigma, the two units of a
\* lower-cased U+0130, the lower-case form of a unit, or the surrogate pair
\* of the lower-case form of a character of a supplementary plane
lowered(p, i) ==
    IF finalSigma(p, i) THEN <<"ς">>
    ELSE IF p[i] = <<"U+0130">> THEN <<"i", "U+0307">>
    ELSE IF Len(p[i]) = 1 THEN <<toLowerChar(p[i][1])>>
    ELSE surrogatePair(toLowerAstral(codePoint(p[i][1], p[i][2])))

\* String.prototype.toLowerCase
RECURSIVE loweredFrom(_, _)
loweredFrom(p, i) ==
    IF i > Len(p) THEN <<>> ELSE lowered(p, i) \o loweredFrom(p, i + 1)
toLowerCase(s) == loweredFrom(codePoints(s), 1)

RECURSIVE trimStart(_)
trimStart(s) == IF s # <<>> /\ isSpace(Head(s)) THEN trimStart(Tail(s)) ELSE s

RECURSIVE trimEnd(_)
trimEnd(s) ==
    IF s # <<>> /\ isSpace(s[Len(s)]) THEN trimEnd(SubSeq(s, 1, Len(s) - 1)) ELSE s

\* String.prototype.trim
trim(s) == trimEnd(trimStart(s))

RECURSIVE digitsPrefix(_)
digitsPrefix(s) ==
    IF s # <<>> /\ isDigit(Head(s)) THEN <<Head(s)>> \o digitsPrefix(Tail(s)) ELSE <<>>

RECURSIVE digitsValue(_, _)
digitsValue(ds, v) ==
    IF ds = <<>> THEN v ELSE digitsValue(Tail(ds), 10 * v + digitValue(Head(ds)))

NaN == [isNaN |-> TRUE, value |-> 0]

\* a parseInt that reads one digit only
parseIntFirstDigit(s) ==
    LET t == trimStart(s)
        ds == digitsPrefix(t)
    IN  IF ds = <<>> THEN NaN ELSE [isNaN |-> FALSE, value |-> digitValue(Head(ds))]

\* parseInt(s, 10): leading white space is skipped, one sign is accepted, the
\* longest run of decimal digits is read and what follows it is ignored; NaN
\* when there is no digit at that place.
parseInt(s) ==
    LET t == trimStart(s)
        neg == t # <<>> /\ Head(t) = "-"
        u == IF t # <<>> /\ Head(t) \in {"-", "+"} THEN Tail(t) ELSE t
        ds == digitsPrefix(u)
    IN  IF ds = <<>> THEN NaN
        ELSE [isNaN |-> FALSE,
              value |-> IF neg THEN 0 - digitsValue(ds, 0) ELSE digitsValue(ds, 0)]

\* a string that is an integer numeral and nothing else
isIntegerNumeral(s) ==
    LET u == IF s # <<>> /\ Head(s) \in {"-", "+"} THEN Tail(s) ELSE s
    IN  u # <<>> /\ digitsPrefix(u) = u

----------------------------------------------------------------------------
(* Data of the service.                                                    *)

Roadmap == <<"R", "o", "a", "d", "m", "a", "p">>

PA == [id |-> "PVT_a", number |-> 1, title |-> Roadmap \o <<" ", "V", "2">>]
PB == [id |-> "PVT_b", number |-> 2, title |-> <<" ">> \o toLowerCase(Roadmap) \o <<" ">>]
PC == [id |-> "PVT_c", number |-> 42, title |-> <<"R", "O", "A", "D", "M", "A", "P">>]
PD == [id |-> "PVT_d", number |-> 7, title |-> <<"2", "0", "2", "4", " ">> \o Roadmap]

\* a title of a capital of the Basic Multilingual Plane, the capital U+10400
\* and a final sigma
PE == [id |-> "PVT_e", number |-> 9, title |-> <<"Ґ", "U+D801", "U+DC00", "Σ">>]

Projects == {PA, PB, PC, PD, PE}

\* the projects of the owner read as an organization and read as a user
OwnerWorlds ==
    { [org |-> <<PA, PB, PC>>, user |-> <<PD>>],
      [org |-> <<>>, user |-> <<PC, PA, PB, PD>>],
      [org |-> <<PD, PC>>, user |-> <<PB>>],
      [org |-> <<PA, PE>>, user |-> <<>>] }

R1 == [id |-> "R_1", name |-> "api"]
R2 == [id |-> "R_2", name |-> "web"]
R3 == [id |-> "R_3", name |-> "docs"]

RepoWorlds ==
    { [org |-> <<R1, R2, R3>>, user |-> <<R3, R1>>],
      [org |-> <<>>, user |-> <<R2, R3, R1>>] }

\* identifiers handed to resolveProject: a number, or a string
num(n) == [type |-> "number", num |-> n, str |-> <<>>]
str(s) == [type |-> "string", num |-> 0, str |-> s]

Identifiers ==
    { num(42), str(<<"4", "2">>), num(7), str(<<"7">>),
      str(Roadmap), str(<<" ", "r", "O", "a", "d", "m", "a", "p">>),
      str(Roadmap \o <<" ", "V", "2">>), str(<<"2", "0", "2", "4", " ">> \o Roadmap),
      str(<<"B">>), str(<<"\t", "R", "O", "A", "D", "M", "A", "P", "\n">>),
      str(<<"ґ", "U+D801", "U+DC28", "ς", "U+3000">>) }

----------------------------------------------------------------------------
(* The transport.                                                          *)

NotFoundError == [message |-> "Could not resolve to a node", errors |-> <<"NOT_FOUND">>]
ForbiddenError == [message |-> "Resource not accessible", errors |-> <<"FORBIDDEN">>]
TransportErrors == {NotFoundError, ForbiddenError}

\* error.errors?.some((e) => e.type === 'NOT_FOUND')
isNotFound(e) == \E i \in 1..Len(e.errors) : e.errors[i] = "NOT_FOUND"

Throws == { [kind |-> "throw", error |-> e] : e \in TransportErrors }

\* number of requests issued with document `doc`
RECURSIVE countDoc(_, _)
countDoc(rs, doc) ==
    IF rs = <<>> THEN 0
    ELSE (IF Head(rs).doc = doc THEN 1 ELSE 0) + countDoc(Tail(rs), doc)

\* Responses to a single-project query: the container (organization / user)
\* may be missing, the project is the one of that number or null.
projectResponses(data, number) ==
    Throws
    \cup { [kind |-> "data", container |-> FALSE, project |-> Null] }
    \cup { [kind |-> "data", container |-> TRUE, project |-> Null] }
    \cup { [kind |-> "data", container |-> TRUE, project |-> data[i]] :
             i \in { j \in 1..Len(data) : data[j].number = number } }

\* Responses to one page request of a connection over `data`: `served` is the
\* number of requests this loop has issued before.  The service answers
\* "more" at most MaxPages times in one loop.
pageResponses(data, cursor, served) ==
    LET pos == IF truthy(cursor) THEN Min(cursor, Len(data)) ELSE 0
        page(k, h, c) ==
          [kind |-> "data", container |-> TRUE,
           nodes |-> SubSeq(data, pos + 1, pos + k),
           hasNextPage |-> h, endCursor |-> c]
        lens == 0..Min(MaxPageLen, Len(data) - pos)
        pages ==
          { page(k, FALSE, pos + k) : k \in lens }
          \cup { page(k, TRUE, NULL) : k \in lens }
          \cup { page(k, TRUE, EMPTY) : k \in lens }
          \cup { page(k, TRUE, pos + k) : k \in lens }
    IN  Throws
        \cup { [kind |-> "data", container |-> FALSE, nodes |-> <<>>,
                hasNextPage |-> FALSE, endCursor |-> NULL] }
        \cup { p \in pages : p.hasNextPage /\ truthy(p.endCursor) => served < MaxPages }

\* a cursor taken from the page whether or not it reports a next page
nextCursorAnyPage(r, cur) == IF r.container THEN r.endCursor ELSE NULL
\* after = page?.pageInfo?.hasNextPage ? page.pageInfo.endCursor : null
nextCursor(r, cur) == IF r.container /\ r.hasNextPage THEN r.endCursor ELSE NULL

\* if (page?.nodes) list.push(...page.nodes)
\* a push that overwrites the accumulator with the page
pushNodesReplace(list, r) == IF r.container THEN r.nodes ELSE list
pushNodes(list, r) == IF r.container THEN list \o r.nodes ELSE list

----------------------------------------------------------------------------
(* Outcomes.                                                               *)

Pending == [kind |-> "pending"]
return(v) == [kind |-> "return", value |-> v]
\* a catch that turns the error into an empty list
swallow(e) == [kind |-> "return", value |-> <<>>]
throw(e) == [kind |-> "throw", error |-> e]

request(doc, variables) == [doc |-> doc, variables |-> variables]

\* a find that keeps the last match
RECURSIVE findLast(_, _)
findLast(projects, searchTitle) ==
    IF projects = <<>> THEN Null
    ELSE LET p == projects[Len(projects)]
         IN  IF trim(toLowerCase(p.title)) = searchTitle THEN p
             ELSE findLast(SubSeq(projects, 1, Len(projects) - 1), searchTitle)

\* projects.find(p => p.title.toLowerCase().trim() === searchTitle) || null
RECURSIVE findByTitle(_, _)
findByTitle(projects, searchTitle) ==
    IF projects = <<>> THEN Null
    ELSE LET p == Head(projects)
         IN  IF trim(toLowerCase(p.title)) = searchTitle THEN p
             ELSE findByTitle(Tail(projects), searchTitle)

\* const searchTitle = String(identifier).toLowerCase().trim()
searchTitleOf(identifier) == trim(toLowerCase(identifier.str))

\* const num = typeof identifier === 'number' ? identifier : parseInt(identifier, 10)
numOf(identifier) ==
    IF identifier.type = "number" THEN [isNaN |-> FALSE, value |-> identifier.num]
    ELSE parseInt(identifier.str)

\* What the operation returns once getProjects has its list: getProjects
\* returns the list, resolveProject goes on to the title match.
listResult(o, a, projects) ==
    IF o = "resolveProject"
    THEN return(findByTitle(projects, searchTitleOf(a.identifier)))
    ELSE return(projects)

----------------------------------------------------------------------------
(* Bounded collectors: the limit option.                                   *)

\* largest limit a caller passes in the model
MaxLimit == 3

\* the limit used when options.limit is not a number
DefaultLimit == 50

NoLimit == [given |-> FALSE, value |-> 0]
limitOption(n) == [given |-> TRUE, value |-> n]
LimitOptions == {NoLimit} \cup { limitOption(n) : n \in (-1)..MaxLimit }

\* a limit taken as given, without the floor of 1
limitOfNoFloor(options) ==
    IF options.limit.given THEN options.limit.value ELSE DefaultLimit

\* typeof options.limit === 'number' ? Math.max(1, options.limit) : 50
limitOf(options) ==
    IF options.limit.given THEN Max(1, options.limit.value) ELSE DefaultLimit

----------------------------------------------------------------------------
(* The client instance and its lazily created transport handle.            *)

\* JavaScript truthiness of a string: `!authToken`, `appId && ...`
isSet(s) == s \notin {Undefined, NullStr, ""}

\* process.env as getClient reads it
environment(appId, privateKey, installationId, token) ==
    [GITHUB_APP_ID |-> appId, GITHUB_APP_PRIVATE_KEY |-> privateKey,
     GITHUB_APP_INSTALLATION_ID |-> installationId, GITHUB_TOKEN |-> token]

Environments ==
    { environment(a, k, i, t) :
        a \in {Undefined, "12345"}, k \in {Undefined, "pem"}, i \in {Undefined, "678"},
        t \in {Undefined, "ghp_env"} }

\* this.graphqlClient before it is created
NoHandle == [created |-> FALSE, authorization |-> Undefined]
\* graphql.defaults({ headers: { authorization: `token ${authToken}` } })
handle(authToken) == [created |-> TRUE, authorization |-> "token " \o authToken]

\* new GitHubClient(token): nothing is read or created by the constructor;
\* `exchanges` counts the installation-token exchanges of this instance
GitHubClient(token, env) ==
    [token |-> token, env |-> env, graphqlClient |-> NoHandle, exchanges |-> 0]

Clients == { GitHubClient(t, e) : t \in {Undefined, "ghp_arg"}, e \in Environments }

\* the client the CLI builds: new GitHubClient() with GITHUB_TOKEN in .env
CliClient == GitHubClient(Undefined, environment(Undefined, Undefined, Undefined, "ghp_env"))

ConfigError ==
    [message |-> "GitHub authentication failed. Please provide either GITHUB_TOKEN or (GITHUB_APP_ID, GITHUB_APP_PRIVATE_KEY, GITHUB_APP_INSTALLATION_ID) in your .env file.",
     errors |-> <<>>]

\* appId && privateKey && installationId
appConfigured(env) ==
    /\ isSet(env.GITHUB_APP_ID)
    /\ isSet(env.GITHUB_APP_PRIVATE_KEY)
    /\ isSet(env.GITHUB_APP_INSTALLATION_ID)

\* a getClient that creates the handle whatever the token is
finishWithAnyToken(c, authToken) ==
    [kind |-> "return", error |-> ConfigError,
     client |-> [c EXCEPT !.graphqlClient = handle(authToken)]]

\* getClient from the GITHUB_TOKEN fallback to its end, with the token
\* `authToken` found so far
finish(c, authToken) ==
    LET t == IF isSet(authToken) THEN authToken ELSE c.env.GITHUB_TOKEN
    IN  IF ~isSet(t)
        THEN [kind |-> "throw", error |-> ConfigError, client |-> c]
        ELSE [kind |-> "return", error |-> ConfigError,
              client |-> [c EXCEPT !.graphqlClient = handle(t)]]

\* a getClient that exchanges the app credentials whenever they are present
getClientAppFirst(c) ==
    IF c.graphqlClient.created
    THEN [kind |-> "return", error |-> ConfigError, client |-> c]
    ELSE IF appConfigured(c.env)
    THEN [kind |-> "await", error |-> ConfigError,
          client |-> [c EXCEPT !.exchanges = @ + 1]]
    ELSE finish(c, c.token)

\* getClient up to its first await: the cached handle, or the start of the
\* installation-token exchange, or the rest of the method
getClient(c) ==
    IF c.graphqlClient.created
    THEN [kind |-> "return", error |-> ConfigError, client |-> c]
    ELSE IF ~isSet(c.token) /\ appConfigured(c.env)
    THEN [kind |-> "await", error |-> ConfigError,
          client |-> [c EXCEPT !.exchanges = @ + 1]]
    ELSE finish(c, c.token)

\* what auth({ type: "installation" }) can do: resolve with a token or reject
Exchanged == { [kind |-> "token", token |-> "ghs_app"], [kind |-> "throw", token |-> Undefined] }

\* getClient after the exchange settled with outcome x
afterExchange(c, x) == finish(c, IF x.kind = "token" THEN x.token ELSE c.token)

OwnerScoped == {"getProject", "getProjects", "getRepositories"}
Bounded == {"listIssues", "listIssueComments", "listProjectIssues"}
Unbounded == {"getProjectColumns", "getProjectItems"}

\* where method f called with a stands once it holds the handle: at its
\* organization attempt, at the head of its loop, or at its single request
\* (while (results.length < limit) for the bounded loops)
entry(f, a) ==
    IF f \in OwnerScoped THEN [pc |-> "org", ret |-> Pending]
    ELSE IF f \in Unbounded THEN [pc |-> "loop", ret |-> Pending]
    ELSE IF f \in Bounded
    THEN IF 0 < limitOf(a) THEN [pc |-> "loop", ret |-> Pending]
         ELSE [pc |-> "done", ret |-> return(<<>>)]
    ELSE [pc |-> "single", ret |-> Pending]

\* outcome g of getClient, then the method's own code
proceed(g, f, a) ==
    /\ client' = g.client
    /\ pc' = IF g.kind = "await" THEN "auth"
             ELSE IF g.kind = "throw" THEN "done" ELSE entry(f, a).pc
    /\ ret' = IF g.kind = "await" THEN Pending
              ELSE IF g.kind = "throw" THEN throw(g.error) ELSE entry(f, a).ret

\* const client = await this.getClient(), the first statement of a method
enter(f, a) == proceed(getClient(client), f, a)

\* the installation-token exchange settles
getClient_exchange ==
    /\ pc = "auth"
    /\ \E x \in Exchanged :
         /\ proceed(afterExchange(client, x), fn, args)
         /\ console' = IF x.kind = "throw"
                       THEN Append(console, "GitHub App auth failed")
                       ELSE console
    /\ UNCHANGED <<op, fn, args, world, after, acc, reqs, resps, cmd>>

----------------------------------------------------------------------------
(* Calls.                                                                  *)

Numbers == {42, 7, 5}

call_getProject ==
    /\ pc = "idle"
    /\ \E w \in OwnerWorlds, n \in Numbers :
         /\ world' = w
         /\ args' = [number |-> n]
    /\ op' = "getProject"
    /\ fn' = "getProject"
    /\ enter(fn', args')
    /\ UNCHANGED <<after, acc, reqs, resps, console, cmd>>

call_getProjects ==
    /\ pc = "idle"
    /\ \E w \in OwnerWorlds : world' = w
    /\ args' = [owner |-> "owner"]
    /\ op' = "getProjects"
    /\ fn' = "getProjects"
    /\ enter(fn', args')
    /\ after' = NULL
    /\ acc' = <<>>
    /\ UNCHANGED <<reqs, resps, console, cmd>>

call_getRepositories ==
    /\ pc = "idle"
    /\ \E w \in RepoWorlds : world' = w
    /\ args' = [owner |-> "owner"]
    /\ op' = "getRepositories"
    /\ fn' = "getRepositories"
    /\ enter(fn', args')
    /\ after' = NULL
    /\ acc' = <<>>
    /\ UNCHANGED <<reqs, resps, console, cmd>>

\* resolveProject up to its first await: the identifier is parsed and the
\* method delegates to getProject or to getProjects.
call_resolveProject ==
    /\ pc = "idle"
    /\ \E w \in OwnerWorlds, ident \in Identifiers :
         LET n == numOf(ident)
         IN  /\ world' = w
             /\ args' = [identifier |-> ident, number |-> n.value]
             /\ fn' = IF ~n.isNaN THEN "getProject" ELSE "getProjects"
    /\ op' = "resolveProject"
    /\ enter(fn', args')
    /\ after' = NULL
    /\ acc' = <<>>
    /\ UNCHANGED <<reqs, resps, console, cmd>>

----------------------------------------------------------------------------
(* getProject.                                                             *)

\* if (result.organization?.projectV2) return result.organization.projectV2
yieldsProjectAlways(r) == r.kind = "data"
yieldsProject(r) == r.kind = "data" /\ r.container /\ r.project # Null

\* the catch blocks: console.error unless the error is NOT_FOUND-typed
logged(r, msg) ==
    IF r.kind = "throw" /\ ~isNotFound(r.error) THEN Append(console, msg) ELSE console

getProject_org ==
    /\ fn = "getProject"
    /\ pc = "org"
    /\ \E r \in projectResponses(world.org, args.number) :
         /\ reqs' = Append(reqs, request("orgProject", [number |-> args.number]))
         /\ resps' = Append(resps, r)
         /\ IF yieldsProject(r)
            THEN /\ ret' = return(r.project)
                 /\ pc' = "done"
                 /\ console' = console
            ELSE /\ ret' = ret
                 /\ pc' = "user"
                 /\ console' = logged(r, "Error fetching org project:")
    /\ UNCHANGED <<op, fn, args, world, after, acc, client, cmd>>

getProject_user ==
    /\ fn = "getProject"
    /\ pc = "user"
    /\ \E r \in projectResponses(world.user, args.number) :
         /\ reqs' = Append(reqs, request("userProject", [number |-> args.number]))
         /\ resps' = Append(resps, r)
         /\ ret' = IF yieldsProject(r) THEN return(r.project) ELSE return(Null)
         /\ console' = logged(r, "Error fetching user project:")
    /\ pc' = "done"
    /\ UNCHANGED <<op, fn, args, world, after, acc, client, cmd>>

----------------------------------------------------------------------------
(* getProjects.                                                            *)

\* if (projects.length === 0) { ...user scope... }
needsUserScopeAlways(projects) == TRUE
needsUserScope(projects) == Len(projects) = 0

getProjects_org ==
    /\ fn = "getProjects"
    /\ pc = "org"
    /\ \E r \in pageResponses(world.org, after, countDoc(reqs, "orgProjects")) :
         LET projects == IF r.kind = "throw" THEN acc ELSE pushNodes(acc, r)
             cursor == IF r.kind = "throw" THEN NULL ELSE nextCursor(r, after)
         IN  /\ reqs' = Append(reqs, request("orgProjects", [after |-> after]))
             /\ resps' = Append(resps, r)
             /\ console' = logged(r, "Error fetching org projects:")
             /\ acc' = projects
             /\ IF truthy(cursor)
                THEN /\ after' = cursor
                     /\ pc' = "org"
                     /\ ret' = ret
                ELSE /\ after' = NULL
                     /\ IF needsUserScope(projects)
                        THEN /\ pc' = "user"
                             /\ ret' = ret
                        ELSE /\ pc' = "done"
                             /\ ret' = listResult(op, args, projects)
    /\ UNCHANGED <<op, fn, args, world, client, cmd>>

getProjects_user ==
    /\ fn = "getProjects"
    /\ pc = "user"
    /\ \E r \in pageResponses(world.user, after, countDoc(reqs, "userProjects")) :
         LET projects == IF r.kind = "throw" THEN acc ELSE pushNodes(acc, r)
             cursor == IF r.kind = "throw" THEN NULL ELSE nextCursor(r, after)
         IN  /\ reqs' = Append(reqs, request("userProjects", [after |-> after]))
             /\ resps' = Append(resps, r)
             /\ console' = logged(r, "Error fetching user projects:")
             /\ acc' = projects
             /\ IF truthy(cursor)
                THEN /\ after' = cursor
                     /\ pc' = "user"
                     /\ ret' = ret
                ELSE /\ after' = NULL
                     /\ pc' = "done"
                     /\ ret' = listResult(op, args, projects)
    /\ UNCHANGED <<op, fn, args, world, client, cmd>>

----------------------------------------------------------------------------
(* getRepositories.                                                        *)

\* if (repos.length > 0) return repos
orgReposReturnedAlways(repos) == TRUE
orgReposReturned(repos) == Len(repos) > 0

getRepositories_org ==
    /\ fn = "getRepositories"
    /\ pc = "org"
    /\ \E r \in pageResponses(world.org, after, countDoc(reqs, "orgRepositories")) :
         LET repos == IF r.kind = "throw" THEN <<>> ELSE pushNodes(acc, r)
             cursor == IF r.kind = "throw" THEN NULL ELSE nextCursor(r, after)
         IN  /\ reqs' = Append(reqs, request("orgRepositories", [after |-> after]))
             /\ resps' = Append(resps, r)
             /\ IF truthy(cursor)
                THEN /\ after' = cursor
                     /\ acc' = repos
                     /\ pc' = "org"
                     /\ ret' = ret
                ELSE /\ after' = NULL
                     /\ IF r.kind = "data" /\ orgReposReturned(repos)
                        THEN /\ pc' = "done"
                             /\ acc' = repos
                             /\ ret' = return(repos)
                        ELSE /\ pc' = "user"
                             /\ acc' = <<>>
                             /\ ret' = ret
    /\ UNCHANGED <<op, fn, args, world, console, client, cmd>>

getRepositories_user ==
    /\ fn = "getRepositories"
    /\ pc = "user"
    /\ \E r \in pageResponses(world.user, after, countDoc(reqs, "userRepositories")) :
         LET repos == IF r.kind = "throw" THEN <<>> ELSE pushNodes(acc, r)
             cursor == IF r.kind = "throw" THEN NULL ELSE nextCursor(r, after)
         IN  /\ reqs' = Append(reqs, request("userRepositories", [after |-> after]))
             /\ resps' = Append(resps, r)
             /\ acc' = repos
             /\ IF truthy(cursor)
                THEN /\ after' = cursor
                     /\ pc' = "user"
                     /\ ret' = ret
                ELSE /\ after' = NULL
                     /\ pc' = "done"
                     /\ ret' = return(repos)
    /\ UNCHANGED <<op, fn, args, world, console, client, cmd>>

----------------------------------------------------------------------------
(* Specification of the owner-scoped operations.                           *)

Init ==
    /\ op = "none"
    /\ fn = "none"
    /\ pc = "idle"
    /\ args = [owner |-> "owner"]
    /\ world = [org |-> <<>>, user |-> <<>>]
    /\ after = NULL
    /\ acc = <<>>
    /\ reqs = <<>>
    /\ resps = <<>>
    /\ console = <<>>
    /\ ret = Pending
    /\ cmd = [name |-> "none"]
    /\ client = CliClient

\* the same for any client a caller can construct in any environment
InitAuth ==
    /\ op = "none"
    /\ fn = "none"
    /\ pc = "idle"
    /\ args = [owner |-> "owner"]
    /\ world = [org |-> <<>>, user |-> <<>>]
    /\ after = NULL
    /\ acc = <<>>
    /\ reqs = <<>>
    /\ resps = <<>>
    /\ console = <<>>
    /\ ret = Pending
    /\ cmd = [name |-> "none"]
    /\ client \in Clients

NextOwner ==
    \/ call_getProject
    \/ call_getProjects
    \/ call_getRepositories
    \/ call_resolveProject
    \/ getProject_org
    \/ getProject_user
    \/ getProjects_org
    \/ getProjects_user
    \/ getRepositories_org
    \/ getRepositories_user

SpecOwner == Init /\ [][NextOwner]_vars

----------------------------------------------------------------------------
(* Project items: raw nodes and their normalization.                       *)

\* one entry of fieldValues.nodes: a single-select value carries `name` and
\* `field.name`; a value of any other type arrives as an empty object
fv(fieldName, name) == [field |-> fieldName, name |-> name]
EmptyFv == fv(Undefined, Undefined)

issueContent(id, n, title) ==
    [__typename |-> "Issue", id |-> id, number |-> <<n>>, title |-> title,
     url |-> "https://github.com/o/r/issues", repository |-> "o/r"]
pullContent(id, n, title) ==
    [__typename |-> "PullRequest", id |-> id, number |-> <<n>>, title |-> title,
     url |-> "https://github.com/o/r/pull", repository |-> "o/r"]
draftContent(id, title) ==
    [__typename |-> "DraftIssue", id |-> id, number |-> <<>>, title |-> title,
     url |-> Undefined, repository |-> Undefined]

\* isArchived is <<b>> for the boolean b and <<>> when the node has none
rawItem(id, content, fieldValues) ==
    [__typename |-> "ProjectV2Item", id |-> id, isArchived |-> <<FALSE>>,
     project |-> [id |-> "PVT_a", title |-> "Roadmap", number |-> 1],
     content |-> content, fieldValues |-> fieldValues]

Item1 == rawItem("PVTI_1", issueContent("I_1", 11, "Fix bug"),
                 <<EmptyFv, fv("Priority", "High"), fv("Status", "Todo")>>)
Item2 == rawItem("PVTI_2", draftContent("DI_2", ""),
                 <<fv("status", "Done"), fv("Priority", "Low")>>)
Item3 == rawItem("PVTI_3", Null, <<fv("Status", "Done"), fv("Status", "Todo")>>)
Item4 == rawItem(Undefined, pullContent("PR_4", 14, "Add docs"), <<>>)
Item5 == rawItem("PVTI_5", issueContent("I_5", 15, Undefined), <<fv("Status", "Done")>>)
Item6 == rawItem("PVTI_6", pullContent("PR_6", 16, "Bump"), <<EmptyFv>>)

\* a content object that carries no discriminator tag, without and with a title
untaggedContent(id, title) ==
    [__typename |-> Undefined, id |-> id, number |-> <<>>, title |-> title,
     url |-> Undefined, repository |-> Undefined]
Item7 == [rawItem("PVTI_7", untaggedContent("X_7", Undefined), <<fv("Status", "Done")>>)
            EXCEPT !.isArchived = <<>>, !.project = Null]
Item8 == [rawItem("PVTI_8", untaggedContent("X_8", "Hidden"), <<>>)
            EXCEPT !.isArchived = <<TRUE>>]

ItemWorld == [data |-> <<Item1, Item2, Item3, Item4, Item5, Item6, Item7, Item8>>]

StatusFieldNames == {"Status", "Priority"}

\* a find that takes the first single-select value, whatever its field
findStatusAny(fieldValues, statusFieldName) ==
    LET hits == { i \in 1..Len(fieldValues) : fieldValues[i].field # Undefined }
    IN  IF hits = {} THEN Undefined
        ELSE fieldValues[CHOOSE i \in hits : \A j \in hits : i <= j].name

\* node.fieldValues?.nodes?.find(fv => fv.field?.name === statusFieldName)?.name
findStatus(fieldValues, statusFieldName) ==
    LET hits == { i \in 1..Len(fieldValues) : fieldValues[i].field = statusFieldName }
    IN  IF hits = {} THEN Undefined
        ELSE fieldValues[CHOOSE i \in hits : \A j \in hits : i <= j].name

\* typeof node.content?.number === 'number' ? node.content.number : 0
numberOf(content) ==
    IF content = Null \/ content.number = <<>> THEN 0 ELSE content.number[1]

\* a title rule without the REDACTED branch
itemTitleNoRedacted(content) ==
    IF content = Null THEN "No Title" ELSE orElse(content.title, "No Title")

\* getProjectItem: node.content?.title || (contentTypename ? 'No Title' : 'REDACTED')
itemTitle(content) ==
    LET contentTypename == IF content = Null THEN Undefined ELSE content.__typename
        title == IF content = Null THEN Undefined ELSE content.title
    IN  orElse(title, IF contentTypename \notin {Undefined, NullStr, ""}
                      THEN "No Title" ELSE "REDACTED")

\* getProjectItems: node.content?.title || 'No Title'
listedTitle(content) ==
    IF content = Null THEN "No Title" ELSE orElse(content.title, "No Title")

\* a record that carries the id of the content as the id of the item
listedItemContentId(node, statusFieldName) ==
    [id |-> IF node.content = Null THEN Undefined ELSE node.content.id,
     type |-> IF node.content = Null THEN Undefined ELSE node.content.__typename,
     content |->
       [id |-> IF node.content = Null THEN Undefined ELSE node.content.id,
        number |-> numberOf(node.content),
        title |-> listedTitle(node.content),
        url |-> IF node.content = Null THEN "" ELSE orElse(node.content.url, ""),
        repository |-> IF node.content = Null THEN "N/A"
                       ELSE orElse(node.content.repository, "N/A")],
     status |-> findStatus(node.fieldValues, statusFieldName)]

\* the record getProjectItems builds for one raw node
listedItem(node, statusFieldName) ==
    [id |-> node.id,
     type |-> IF node.content = Null THEN Undefined ELSE node.content.__typename,
     content |->
       [id |-> IF node.content = Null THEN Undefined ELSE node.content.id,
        number |-> numberOf(node.content),
        title |-> listedTitle(node.content),
        url |-> IF node.content = Null THEN "" ELSE orElse(node.content.url, ""),
        repository |-> IF node.content = Null THEN "N/A"
                       ELSE orElse(node.content.repository, "N/A")],
     status |-> findStatus(node.fieldValues, statusFieldName)]

\* nodes.map(...).filter(item => item.id)
RECURSIVE listedItems(_, _)
listedItems(nodes, statusFieldName) ==
    IF nodes = <<>> THEN <<>>
    ELSE (IF Head(nodes).id \in {Undefined, NullStr, ""} THEN <<>>
          ELSE <<listedItem(Head(nodes), statusFieldName)>>)
         \o listedItems(Tail(nodes), statusFieldName)

\* the record getProjectItem builds
itemDetails(node, statusFieldName) ==
    [id |-> node.id,
     isArchived |-> node.isArchived = <<TRUE>>,
     project |-> IF node.project = Null THEN Null
                 ELSE [id |-> node.project.id, title |-> node.project.title,
                       number |-> node.project.number],
     content |->
       [__typename |-> IF node.content = Null THEN NullStr
                       ELSE orElse(node.content.__typename, NullStr),
        id |-> IF node.content = Null THEN "" ELSE orElse(node.content.id, ""),
        number |-> numberOf(node.content),
        title |-> itemTitle(node.content),
        url |-> IF node.content = Null THEN "" ELSE orElse(node.content.url, ""),
        repository |-> IF node.content = Null THEN "N/A"
                       ELSE orElse(node.content.repository, "N/A")],
     status |-> findStatus(node.fieldValues, statusFieldName)]

call_getProjectItems ==
    /\ pc = "idle"
    /\ \E f \in StatusFieldNames : args' = [projectId |-> "PVT_a", statusFieldName |-> f]
    /\ world' = ItemWorld
    /\ op' = "getProjectItems"
    /\ fn' = "getProjectItems"
    /\ enter(fn', args')
    /\ after' = NULL
    /\ acc' = <<>>
    /\ UNCHANGED <<reqs, resps, console, cmd>>

getProjectItems_page ==
    /\ fn = "getProjectItems"
    /\ pc = "loop"
    /\ \E r \in pageResponses(world.data, after, countDoc(reqs, "items")) :
         /\ reqs' = Append(reqs, request("items", [after |-> after]))
         /\ resps' = Append(resps, r)
         /\ IF r.kind = "throw"
            THEN /\ ret' = throw(r.error)
                 /\ pc' = "done"
                 /\ UNCHANGED <<after, acc>>
            ELSE LET nodes == pushNodes(acc, r)
                     cursor == nextCursor(r, after)
                 IN  /\ acc' = nodes
                     /\ after' = cursor
                     /\ IF truthy(cursor)
                        THEN /\ pc' = "loop"
                             /\ ret' = ret
                        ELSE /\ pc' = "done"
                             /\ ret' = return(listedItems(nodes, args.statusFieldName))
    /\ UNCHANGED <<op, fn, args, world, console, client, cmd>>

\* the nodes a node(id: $id) query can resolve to
itemNodeResponses(data) ==
    Throws
    \cup { [kind |-> "data", node |-> Null] }
    \cup { [kind |-> "data", node |-> [__typename |-> "Issue", id |-> "I_1"]] }
    \cup { [kind |-> "data", node |-> data[i]] : i \in 1..Len(data) }

call_getProjectItem ==
    /\ pc = "idle"
    /\ \E f \in StatusFieldNames : args' = [itemId |-> "PVTI_x", statusFieldName |-> f]
    /\ world' = ItemWorld
    /\ op' = "getProjectItem"
    /\ fn' = "getProjectItem"
    /\ enter(fn', args')
    /\ UNCHANGED <<after, acc, reqs, resps, console, cmd>>

getProjectItem_node ==
    /\ fn = "getProjectItem"
    /\ pc = "single"
    /\ \E r \in itemNodeResponses(world.data) :
         /\ reqs' = Append(reqs, request("itemNode", [id |-> args.itemId]))
         /\ resps' = Append(resps, r)
         /\ ret' = IF r.kind = "throw" THEN throw(r.error)
                   ELSE IF r.node = Null \/ r.node.__typename # "ProjectV2Item"
                        THEN return(Null)
                   ELSE return(itemDetails(r.node, args.statusFieldName))
    /\ pc' = "done"
    /\ UNCHANGED <<op, fn, args, world, after, acc, console, client, cmd>>

----------------------------------------------------------------------------
(* getProjectColumns.                                                      *)

option(id, name) == [id |-> id, name |-> name]

\* a single-select field; a field of any other type arrives as an empty object
selectField(id, name, options) == [id |-> id, name |-> name, options |-> options]
EmptyField == selectField(Undefined, Undefined, <<>>)

FieldWorld ==
    [data |-> <<EmptyField,
                selectField("F_prio", "Priority", <<option("O_hi", "High"), option("O_lo", "Low")>>),
                selectField("F_lower", "status", <<option("O_x", "Open")>>),
                selectField("F_status", "Status",
                            <<option("O_todo", "Todo"), option("O_doing", "In Progress"),
                              option("O_done", "Done")>>),
                selectField("F_dup", "Status", <<option("O_other", "Other")>>),
                selectField("F_stage", "Stage", <<>>)>>]

\* columns that all carry the id of the first option
columnsOfFirstOption(fields, statusFieldName) ==
    LET hits == { i \in 1..Len(fields) : fields[i].name = statusFieldName }
    IN  IF hits = {} THEN <<>>
        ELSE LET statusField == fields[CHOOSE i \in hits : \A j \in hits : i <= j]
             IN  [k \in 1..Len(statusField.options) |->
                    [id |-> statusField.id,
                     name |-> statusField.options[k].name,
                     optionId |-> statusField.options[1].id]]

\* columns taken from the last field of that name
columnsOfLastField(fields, statusFieldName) ==
    LET hits == { i \in 1..Len(fields) : fields[i].name = statusFieldName }
    IN  IF hits = {} THEN <<>>
        ELSE LET statusField == fields[CHOOSE i \in hits : \A j \in hits : i >= j]
             IN  [k \in 1..Len(statusField.options) |->
                    [id |-> statusField.id,
                     name |-> statusField.options[k].name,
                     optionId |-> statusField.options[k].id]]

\* fields.find(f => f.name === statusFieldName), then one record per option:
\* { id: statusField.id, name: opt.name, optionId: opt.id }
columnsOf(fields, statusFieldName) ==
    LET hits == { i \in 1..Len(fields) : fields[i].name = statusFieldName }
    IN  IF hits = {} THEN <<>>
        ELSE LET statusField == fields[CHOOSE i \in hits : \A j \in hits : i <= j]
             IN  [k \in 1..Len(statusField.options) |->
                    [id |-> statusField.id,
                     name |-> statusField.options[k].name,
                     optionId |-> statusField.options[k].id]]

call_getProjectColumns ==
    /\ pc = "idle"
    /\ \E f \in StatusFieldNames \cup {"Stage"} :
         args' = [projectId |-> "PVT_a", statusFieldName |-> f]
    /\ world' = FieldWorld
    /\ op' = "getProjectColumns"
    /\ fn' = "getProjectColumns"
    /\ enter(fn', args')
    /\ after' = NULL
    /\ acc' = <<>>
    /\ UNCHANGED <<reqs, resps, console, cmd>>

getProjectColumns_page ==
    /\ fn = "getProjectColumns"
    /\ pc = "loop"
    /\ \E r \in pageResponses(world.data, after, countDoc(reqs, "fields")) :
         /\ reqs' = Append(reqs, request("fields", [after |-> after]))
         /\ resps' = Append(resps, r)
         /\ IF r.kind = "throw"
            THEN /\ ret' = throw(r.error)
                 /\ pc' = "done"
                 /\ UNCHANGED <<after, acc>>
            ELSE LET fields == pushNodes(acc, r)
                     cursor == nextCursor(r, after)
                 IN  /\ acc' = fields
                     /\ after' = cursor
                     /\ IF truthy(cursor)
                        THEN /\ pc' = "loop"
                             /\ ret' = ret
                        ELSE /\ pc' = "done"
                             /\ ret' = return(columnsOf(fields, args.statusFieldName))
    /\ UNCHANGED <<op, fn, args, world, console, client, cmd>>

----------------------------------------------------------------------------
(* Bounded collectors: listIssues, listIssueComments, listProjectIssues.   *)

issueNode(id, n, login) ==
    [id |-> id, number |-> n, title |-> "t", state |-> "OPEN",
     url |-> "https://github.com/o/r/issues/" \o id,
     createdAt |-> "2024-01-01T00:00:00Z", updatedAt |-> "2024-01-02T00:00:00Z",
     author |-> login]

IssueWorld ==
    [data |-> <<issueNode("I_1", 1, "alice"), issueNode("I_2", 2, NullStr),
                issueNode("I_3", 3, "bob"), issueNode("I_4", 4, "alice"),
                issueNode("I_5", 5, NullStr), issueNode("I_6", 6, "carol")>>]

\* the record listIssues and listProjectIssues build for one issue node;
\* author: node.author?.login || null
listRecord(node) ==
    [id |-> node.id, number |-> node.number, title |-> node.title,
     state |-> node.state, url |-> node.url, createdAt |-> node.createdAt,
     updatedAt |-> node.updatedAt, author |-> orElse(node.author, NullStr)]

\* a loop body that pushes the whole page
RECURSIVE pushAll(_, _, _)
pushAll(results, nodes, limit) ==
    IF nodes = <<>> THEN results
    ELSE pushAll(Append(results, listRecord(Head(nodes))), Tail(nodes), limit)

\* for (const node of nodes) { results.push(...); if (results.length >= limit) break; }
RECURSIVE pushUntil(_, _, _)
pushUntil(results, nodes, limit) ==
    IF nodes = <<>> THEN results
    ELSE LET pushed == Append(results, listRecord(Head(nodes)))
         IN  IF Len(pushed) >= limit THEN pushed
             ELSE pushUntil(pushed, Tail(nodes), limit)

call_listIssues ==
    /\ pc = "idle"
    /\ \E l \in LimitOptions : args' = [owner |-> "owner", repo |-> "r", limit |-> l]
    /\ world' = IssueWorld
    /\ op' = "listIssues"
    /\ fn' = "listIssues"
    /\ enter(fn', args')
    /\ after' = NULL
    /\ acc' = <<>>
    /\ UNCHANGED <<reqs, resps, console, cmd>>

listIssues_page ==
    /\ fn = "listIssues"
    /\ pc = "loop"
    /\ \E r \in pageResponses(world.data, after, countDoc(reqs, "issues")) :
         /\ reqs' = Append(reqs, request("issues", [after |-> after]))
         /\ resps' = Append(resps, r)
         /\ IF r.kind = "throw"
            THEN /\ ret' = throw(r.error)
                 /\ pc' = "done"
                 /\ UNCHANGED <<after, acc>>
            ELSE LET nodes == IF r.container THEN r.nodes ELSE <<>>
                     results == pushUntil(acc, nodes, limitOf(args))
                     cursor == nextCursor(r, after)
                 IN  /\ acc' = results
                     /\ after' = cursor
                     /\ IF truthy(cursor) /\ Len(results) < limitOf(args)
                        THEN /\ pc' = "loop"
                             /\ ret' = ret
                        ELSE /\ pc' = "done"
                             /\ ret' = return(results)
    /\ UNCHANGED <<op, fn, args, world, console, client, cmd>>

\* one node of Issue.comments.nodes; author is the login, or null
commentNode(id, login) ==
    [id |-> id, url |-> "https://github.com/o/r/issues/1#" \o id, body |-> "b",
     createdAt |-> "2024-01-01T00:00:00Z", updatedAt |-> "2024-01-02T00:00:00Z",
     author |-> login]

CommentWorld ==
    [data |-> <<commentNode("IC_1", "alice"), commentNode("IC_2", NullStr),
                commentNode("IC_3", "bob"), commentNode("IC_4", ""),
                commentNode("IC_5", "alice"), commentNode("IC_6", "carol")>>]

\* the record listIssueComments builds for one comment
commentRecord(comment) ==
    [id |-> comment.id, url |-> comment.url, body |-> comment.body,
     createdAt |-> comment.createdAt, updatedAt |-> comment.updatedAt,
     author |-> orElse(comment.author, NullStr)]

\* for (const comment of nodes) { results.push(...); if (results.length >= limit) break; }
RECURSIVE pushComments(_, _, _)
pushComments(results, nodes, limit) ==
    IF nodes = <<>> THEN results
    ELSE LET pushed == Append(results, commentRecord(Head(nodes)))
         IN  IF Len(pushed) >= limit THEN pushed
             ELSE pushComments(pushed, Tail(nodes), limit)

call_listIssueComments ==
    /\ pc = "idle"
    /\ \E l \in LimitOptions : args' = [issueId |-> "I_1", limit |-> l]
    /\ world' = CommentWorld
    /\ op' = "listIssueComments"
    /\ fn' = "listIssueComments"
    /\ enter(fn', args')
    /\ after' = NULL
    /\ acc' = <<>>
    /\ UNCHANGED <<reqs, resps, console, cmd>>

\* a response without the container stands for `node` being null or not an
\* Issue: if (!node || node.__typename !== 'Issue') return []
listIssueComments_page ==
    /\ fn = "listIssueComments"
    /\ pc = "loop"
    /\ \E r \in pageResponses(world.data, after, countDoc(reqs, "comments")) :
         /\ reqs' = Append(reqs, request("comments", [after |-> after]))
         /\ resps' = Append(resps, r)
         /\ IF r.kind = "throw"
            THEN /\ ret' = throw(r.error)
                 /\ pc' = "done"
                 /\ UNCHANGED <<after, acc>>
            ELSE IF ~r.container
            THEN /\ ret' = return(<<>>)
                 /\ pc' = "done"
                 /\ UNCHANGED <<after, acc>>
            ELSE LET results == pushComments(acc, r.nodes, limitOf(args))
                     cursor == nextCursor(r, after)
                 IN  /\ acc' = results
                     /\ after' = cursor
                     /\ IF truthy(cursor) /\ Len(results) < limitOf(args)
                        THEN /\ pc' = "loop"
                             /\ ret' = ret
                        ELSE /\ pc' = "done"
                             /\ ret' = return(results)
    /\ UNCHANGED <<op, fn, args, world, console, client, cmd>>

\* one entry of Issue.projectItems.nodes
linkedItem(id, projectId, fieldValues) ==
    [id |-> id, project |-> [id |-> projectId], fieldValues |-> fieldValues]

searchNode(typename, id, n, links) ==
    [__typename |-> typename, id |-> id, number |-> n, title |-> "t",
     state |-> "OPEN", url |-> "https://github.com/o/r/issues/" \o id,
     createdAt |-> "2024-01-01T00:00:00Z", updatedAt |-> "2024-01-02T00:00:00Z",
     author |-> "alice", projectItems |-> links]

Search1 == searchNode("Issue", "I_1", 1,
              <<linkedItem("PVTI_b1", "PVT_b", <<fv("Status", "Done")>>),
                linkedItem("PVTI_a1", "PVT_a", <<fv("Priority", "High"), fv("Status", "Todo")>>)>>)
Search2 == searchNode("PullRequest", "PR_2", 2,
              <<linkedItem("PVTI_a2", "PVT_a", <<fv("Status", "Todo")>>)>>)
Search3 == searchNode("Issue", "I_3", 3, <<>>)
Search4 == searchNode("DraftIssue", "DI_4", 4,
              <<linkedItem("PVTI_a4", "PVT_a", <<fv("Status", "Done")>>)>>)
Search5 == searchNode("Issue", "I_5", 5,
              <<linkedItem("PVTI_a5", "PVT_a", <<fv("status", "Done"), EmptyFv>>)>>)
Search6 == searchNode("Issue", "I_6", 6,
              <<linkedItem("PVTI_b6", "PVT_b", <<fv("Status", "Done")>>)>>)

Search7 == searchNode("Issue", "I_7", 7,
              <<linkedItem("PVTI_b7", "PVT_b", <<fv("Status", "Done")>>),
                linkedItem("PVTI_a7", "PVT_a", <<fv("Status", "Todo")>>),
                linkedItem("PVTI_a7x", "PVT_a", <<fv("Status", "Done")>>)>>)

SearchWorlds ==
    { [data |-> <<Search1, Search2, Search3, Search4, Search5, Search6>>],
      [data |-> <<Search6, Search5, Search4, Search1, Search7>>] }

\* a lookup that takes the first linked item, whatever its project
findProjectItemAny(links, projectId) ==
    IF links = <<>> THEN Null ELSE links[1]

\* (node.projectItems?.nodes || []).find(pi => pi?.project?.id === projectId)
findProjectItem(links, projectId) ==
    LET hits == { i \in 1..Len(links) : links[i].project.id = projectId }
    IN  IF hits = {} THEN Null ELSE links[CHOOSE i \in hits : \A j \in hits : i <= j]

\* a record whose status is read from the issue's first linked item
projectIssueRecordFirstLink(node, projectItem, statusFieldName) ==
    [issue |-> listRecord(node),
     projectItemId |-> projectItem.id,
     status |-> findStatus(node.projectItems[1].fieldValues, statusFieldName)]

\* the record listProjectIssues pushes for a linked issue
projectIssueRecord(node, projectItem, statusFieldName) ==
    [issue |-> listRecord(node),
     projectItemId |-> projectItem.id,
     status |-> findStatus(projectItem.fieldValues, statusFieldName)]

\* a loop in which a skipped result uses up one place of the limit
RECURSIVE pushLinkedScanned(_, _, _, _, _)
pushLinkedScanned(results, nodes, projectId, statusFieldName, limit) ==
    IF nodes = <<>> \/ Len(results) >= limit THEN results
    ELSE LET node == Head(nodes)
             projectItem == findProjectItem(node.projectItems, projectId)
         IN  IF node.__typename # "Issue" \/ projectItem = Null
             THEN pushLinkedScanned(results, Tail(nodes), projectId, statusFieldName, limit - 1)
             ELSE pushLinkedScanned(Append(results,
                                      projectIssueRecord(node, projectItem, statusFieldName)),
                                    Tail(nodes), projectId, statusFieldName, limit)

\* the for loop of listProjectIssues over the nodes of one page
RECURSIVE pushLinked(_, _, _, _, _)
pushLinked(results, nodes, projectId, statusFieldName, limit) ==
    IF nodes = <<>> THEN results
    ELSE LET node == Head(nodes)
             projectItem == findProjectItem(node.projectItems, projectId)
         IN  IF node.__typename # "Issue" \/ projectItem = Null
             THEN pushLinked(results, Tail(nodes), projectId, statusFieldName, limit)
             ELSE LET pushed == Append(results,
                                  projectIssueRecord(node, projectItem, statusFieldName))
                  IN  IF Len(pushed) >= limit THEN pushed
                      ELSE pushLinked(pushed, Tail(nodes), projectId, statusFieldName, limit)

\* ListProjectIssuesOptions.state and .repo as a caller passes them
StateOptions == {Undefined, "open", "closed", "all"}
RepoOptions == {Undefined, "o/r"}

\* Array.prototype.join
RECURSIVE join(_, _)
join(parts, sep) ==
    IF parts = <<>> THEN ""
    ELSE IF Len(parts) = 1 THEN parts[1]
    ELSE parts[1] \o sep \o join(Tail(parts), sep)

\* a state taken as given, without the default
stateAsGiven(options) == options.state
\* const state = options.state || 'open'
stateOf(options) == orElse(options.state, "open")

\* the qualifiers of the search and their join(' ')
searchQuery(owner, options) ==
    LET state == stateOf(options)
        qualifiers ==
          <<"org:" \o owner, "is:issue">>
          \o (IF state = "open" THEN <<"is:open">> ELSE <<>>)
          \o (IF state = "closed" THEN <<"is:closed">> ELSE <<>>)
          \o (IF isSet(options.repo) THEN <<"repo:" \o options.repo>> ELSE <<>>)
    IN  join(qualifiers, " ")

call_listProjectIssues ==
    /\ pc = "idle"
    /\ \E l \in LimitOptions, f \in StatusFieldNames, st \in StateOptions, rp \in RepoOptions :
         args' = [owner |-> "owner", projectId |-> "PVT_a", statusFieldName |-> f,
                  limit |-> l, state |-> st, repo |-> rp]
    /\ \E w \in SearchWorlds : world' = w
    /\ op' = "listProjectIssues"
    /\ fn' = "listProjectIssues"
    /\ enter(fn', args')
    /\ after' = NULL
    /\ acc' = <<>>
    /\ UNCHANGED <<reqs, resps, console, cmd>>

listProjectIssues_page ==
    /\ fn = "listProjectIssues"
    /\ pc = "loop"
    /\ \E r \in pageResponses(world.data, after, countDoc(reqs, "search")) :
         /\ reqs' = Append(reqs, request("search",
                                  [q |-> searchQuery(args.owner, args), after |-> after]))
         /\ resps' = Append(resps, r)
         /\ IF r.kind = "throw"
            THEN /\ ret' = throw(r.error)
                 /\ pc' = "done"
                 /\ UNCHANGED <<after, acc>>
            ELSE LET nodes == IF r.container THEN r.nodes ELSE <<>>
                     results == pushLinked(acc, nodes, args.projectId,
                                           args.statusFieldName, limitOf(args))
                     cursor == nextCursor(r, after)
                 IN  /\ acc' = results
                     /\ after' = cursor
                     /\ IF truthy(cursor) /\ Len(results) < limitOf(args)
                        THEN /\ pc' = "loop"
                             /\ ret' = ret
                        ELSE /\ pc' = "done"
                             /\ ret' = return(results)
    /\ UNCHANGED <<op, fn, args, world, console, client, cmd>>

----------------------------------------------------------------------------
(* Specifications.                                                         *)

NextItems ==
    \/ call_getProjectItems
    \/ getProjectItems_page
    \/ call_getProjectItem
    \/ getProjectItem_node

NextLists ==
    \/ call_listIssues
    \/ listIssues_page
    \/ call_listIssueComments
    \/ listIssueComments_page
    \/ call_listProjectIssues
    \/ listProjectIssues_page

\* the item operations
SpecItems == Init /\ [][NextItems \/ call_listProjectIssues \/ listProjectIssues_page]_vars

\* every pagination loop of the client
SpecCollect ==
    Init /\ [][\/ call_getProjects
               \/ getProjects_org
               \/ getProjects_user
               \/ call_getRepositories
               \/ getRepositories_org
               \/ getRepositories_user
               \/ call_getProjectColumns
               \/ getProjectColumns_page
               \/ call_getProjectItems
               \/ getProjectItems_page
               \/ NextLists]_vars

\* a request that was sent is answered or fails, and the awaiting method
\* then runs on to its next await or to its end
pageStep ==
    \/ getProjects_org
    \/ getProjects_user
    \/ getRepositories_org
    \/ getRepositories_user
    \/ getProjectColumns_page
    \/ getProjectItems_page
    \/ listIssues_page
    \/ listIssueComments_page
    \/ listProjectIssues_page

\* the pagination loops on a transport that settles every request and, as
\* pageResponses has it, stops answering "more" after MaxPages pages
SpecCollectFair == SpecCollect /\ WF_vars(pageStep)

----------------------------------------------------------------------------
(* getIssue and getIssueById.                                              *)

\* an Issue node as the two detail queries select it
issueDetails(id, n, login, repository) ==
    [__typename |-> "Issue", id |-> id, number |-> n, title |-> "t", body |-> "b",
     state |-> "OPEN", url |-> "https://github.com/o/r/issues",
     createdAt |-> "2024-01-01", updatedAt |-> "2024-01-02",
     author |-> login, repository |-> repository]

Detail1 == issueDetails("I_1", 11, "alice", [owner |-> "o", name |-> "r"])
Detail2 == issueDetails("I_5", 15, NullStr, Null)

DetailWorld == [data |-> <<Detail1, Detail2>>]

\* responses to the by-number query: the repository may be missing, the
\* issue is the one of that number or null
issueResponses(data, number) ==
    Throws
    \cup { [kind |-> "data", container |-> FALSE, issue |-> Null] }
    \cup { [kind |-> "data", container |-> TRUE, issue |-> Null] }
    \cup { [kind |-> "data", container |-> TRUE, issue |-> data[i]] :
             i \in { j \in 1..Len(data) : data[j].number = number /\ data[j].repository # Null } }

\* the object getIssue returns
issueOf(issue) ==
    [id |-> issue.id, number |-> issue.number, title |-> issue.title,
     body |-> issue.body, state |-> issue.state, url |-> issue.url,
     repository |-> [owner |-> issue.repository.owner, name |-> issue.repository.name]]

call_getIssue ==
    /\ pc = "idle"
    /\ \E n \in {11, 15, 99} : args' = [owner |-> "o", repo |-> "r", number |-> n]
    /\ world' = DetailWorld
    /\ op' = "getIssue"
    /\ fn' = "getIssue"
    /\ enter(fn', args')
    /\ UNCHANGED <<after, acc, reqs, resps, console, cmd>>

getIssue_request ==
    /\ fn = "getIssue"
    /\ pc = "single"
    /\ \E r \in issueResponses(world.data, args.number) :
         /\ reqs' = Append(reqs, request("issue", [number |-> args.number]))
         /\ resps' = Append(resps, r)
         /\ ret' = IF r.kind = "throw" THEN throw(r.error)
                   ELSE IF ~r.container \/ r.issue = Null THEN return(Null)
                   ELSE return(issueOf(r.issue))
    /\ pc' = "done"
    /\ UNCHANGED <<op, fn, args, world, after, acc, console, client, cmd>>

\* responses to node(id: $id): null, a node of another type, or an issue
nodeResponses(data) ==
    Throws
    \cup { [kind |-> "data", node |-> Null] }
    \cup { [kind |-> "data", node |-> [__typename |-> "PullRequest", id |-> "PR_4"]] }
    \cup { [kind |-> "data", node |-> data[i]] : i \in 1..Len(data) }

\* the object getIssueById returns
issueByIdOf(node) ==
    [id |-> node.id, number |-> node.number, title |-> node.title,
     body |-> node.body, state |-> node.state, url |-> node.url,
     createdAt |-> node.createdAt, updatedAt |-> node.updatedAt,
     author |-> orElse(node.author, NullStr),
     repository |-> IF node.repository = Null THEN [owner |-> "", name |-> ""]
                    ELSE [owner |-> orElse(node.repository.owner, ""),
                          name |-> orElse(node.repository.name, "")]]

call_getIssueById ==
    /\ pc = "idle"
    /\ \E id \in {"I_1", "I_5", "I_x"} : args' = [issueId |-> id]
    /\ world' = DetailWorld
    /\ op' = "getIssueById"
    /\ fn' = "getIssueById"
    /\ enter(fn', args')
    /\ UNCHANGED <<after, acc, reqs, resps, console, cmd>>

getIssueById_request ==
    /\ fn = "getIssueById"
    /\ pc = "single"
    /\ \E r \in nodeResponses(world.data) :
         /\ reqs' = Append(reqs, request("issueNode", [id |-> args.issueId]))
         /\ resps' = Append(resps, r)
         /\ ret' = IF r.kind = "throw" THEN throw(r.error)
                   ELSE IF r.node = Null \/ r.node.__typename # "Issue" THEN return(Null)
                   ELSE return(issueByIdOf(r.node))
    /\ pc' = "done"
    /\ UNCHANGED <<op, fn, args, world, after, acc, console, client, cmd>>

\* the lookups of one entity
SpecLookup ==
    Init /\ [][\/ call_getProject
               \/ getProject_org
               \/ getProject_user
               \/ call_getIssue
               \/ getIssue_request
               \/ call_getIssueById
               \/ getIssueById_request
               \/ call_getProjectItem
               \/ getProjectItem_node]_vars

----------------------------------------------------------------------------
(* moveIssue, and a service that carries out the mutation.                 *)

\* a caller invokes client method f, running as public operation o, with
\* arguments a on a service holding w: fresh locals, fresh logs, getClient
invoke(o, f, a, w) ==
    /\ op' = o
    /\ fn' = f
    /\ args' = a
    /\ world' = w
    /\ after' = NULL
    /\ acc' = <<>>
    /\ reqs' = <<>>
    /\ resps' = <<>>
    /\ enter(f, a)

\* the variables moveIssue sends with updateProjectV2ItemFieldValue
moveVariables(params) ==
    [projectId |-> params.projectId,
     itemId |-> params.issueId,
     fieldId |-> params.statusFieldId,
     value |-> [singleSelectOptionId |-> params.statusOptionId]]

\* index of the first element of seq whose id is `id`, 0 when none
indexOfId(seq, id) ==
    LET hits == { i \in 1..Len(seq) : seq[i].id = id }
    IN  IF hits = {} THEN 0 ELSE CHOOSE i \in hits : \A j \in hits : i <= j

\* the field values of an item once field `fieldName` is set to `name`
setValue(fieldValues, fieldName, name) ==
    IF \E i \in 1..Len(fieldValues) : fieldValues[i].field = fieldName
    THEN [i \in 1..Len(fieldValues) |->
            IF fieldValues[i].field = fieldName THEN fv(fieldName, name)
            ELSE fieldValues[i]]
    ELSE Append(fieldValues, fv(fieldName, name))

\* The service carrying out updateProjectV2ItemFieldValue on the items and
\* fields it holds: the item, the field and the option are found by id; an
\* unknown id is answered with a NOT_FOUND error and changes nothing.
applyMove(w, variables) ==
    LET i == indexOfId(w.items, variables.itemId)
        f == indexOfId(w.fields, variables.fieldId)
        o == IF f = 0 THEN 0
             ELSE indexOfId(w.fields[f].options, variables.value.singleSelectOptionId)
    IN  IF i = 0 \/ f = 0 \/ o = 0
        THEN [response |-> [kind |-> "throw", error |-> NotFoundError], world |-> w]
        ELSE [response |-> [kind |-> "data", projectV2Item |-> [id |-> variables.itemId]],
              world |-> [w EXCEPT !.items[i].fieldValues =
                            setValue(@, w.fields[f].name, w.fields[f].options[o].name)]]

\* the items of the board whose id a caller can name
BoardItems == <<Item1, Item2, Item3, Item5, Item6>>

\* a service holding a board of items and fields, answering queries over `data`
serving(data, items, fields) == [data |-> data, items |-> items, fields |-> fields]
BoardWorld == serving(<<>>, BoardItems, FieldWorld.data)

MoveParams ==
    { [issueId |-> i, projectId |-> "PVT_a", statusFieldId |-> f, statusOptionId |-> o] :
        i \in {"PVTI_1", "PVTI_9"}, f \in {"F_status", "F_prio"}, o \in {"O_done", "O_lo"} }

call_moveIssue ==
    /\ pc = "idle"
    /\ \E params \in MoveParams : args' = params
    /\ world' = BoardWorld
    /\ op' = "moveIssue"
    /\ fn' = "moveIssue"
    /\ enter(fn', args')
    /\ UNCHANGED <<after, acc, reqs, resps, console, cmd>>

\* await client(mutation, {...}): the service carries the mutation out, or
\* the transport fails and nothing changes
moveIssue_mutation ==
    /\ fn = "moveIssue"
    /\ pc = "single"
    /\ LET variables == moveVariables(args)
           done == applyMove(world, variables)
       IN  /\ reqs' = Append(reqs, request("updateProjectV2ItemFieldValue", variables))
           /\ \E r \in Throws \cup {done.response} :
                /\ resps' = Append(resps, r)
                /\ world' = IF r = done.response THEN done.world ELSE world
                /\ ret' = IF r.kind = "throw" THEN throw(r.error) ELSE return(Undefined)
    /\ pc' = "done"
    /\ UNCHANGED <<op, fn, args, after, acc, console, client, cmd>>

----------------------------------------------------------------------------
(* The mutations of one request: updateIssue, addComment, addProjectItem,  *)
(* addDraftItem, archiveProjectItem, deleteProjectItem and closeIssue.     *)

\* what reading `property` of null raises, as `result.addProjectV2ItemById.item`
\* does on a payload that is null and `item.id` on an item that is null
TypeError(property) ==
    [message |-> "Cannot read properties of null (reading '" \o property \o "')",
     errors |-> <<>>]

\* a caller invokes mutation f with arguments a
callMutation(f, a) ==
    /\ pc = "idle"
    /\ args' = a
    /\ world' = BoardWorld
    /\ op' = f
    /\ fn' = f
    /\ enter(f, a)
    /\ UNCHANGED <<after, acc, reqs, resps, console, cmd>>

\* a method that awaits the answer and returns nothing
returnsNothing(r) == return(Undefined)

\* a method that returns result.<payload>.<property>.id
returnsId(r, property) ==
    IF r.payload = Null THEN throw(TypeError(property))
    ELSE IF r.payload[property] = Null THEN throw(TypeError("id"))
    ELSE return(r.payload[property].id)

\* await client(mutation, variables) of method f: the request is sent, the
\* transport fails or answers with one of `answers`, and the method returns
\* nothing when `reads` is empty, or the id it reads out of the property
\* `reads` names
mutate(f, doc, variables, answers, reads) ==
    /\ fn = f
    /\ pc = "single"
    /\ reqs' = Append(reqs, request(doc, variables))
    /\ \E r \in Throws \cup answers :
         /\ resps' = Append(resps, r)
         /\ ret' = IF r.kind = "throw" THEN throw(r.error)
                   ELSE IF reads = <<>> THEN returnsNothing(r)
                   ELSE returnsId(r, reads[1])
    /\ pc' = "done"
    /\ UNCHANGED <<op, fn, args, world, after, acc, console, client, cmd>>

\* the answer to a mutation whose payload the method does not read
Done == { [kind |-> "data", payload |-> Null] }
\* the answers to a mutation that creates an item: the payload with the
\* item under `property`, the payload without the item, or no payload
Created(id, property) ==
    { [kind |-> "data", payload |-> (property :> [id |-> id])],
      [kind |-> "data", payload |-> (property :> Null)],
      [kind |-> "data", payload |-> Null] }

\* UpdateIssueParams: title and body are optional
call_updateIssue ==
    \E title \in {Undefined, "t"}, body \in {Undefined, "b"} :
      callMutation("updateIssue", [issueId |-> "I_1", title |-> title, body |-> body])

\* await client(mutation, params)
updateIssue_mutation ==
    mutate("updateIssue", "updateIssue", args, Done, <<>>)

call_addComment ==
    callMutation("addComment", [subjectId |-> "I_1", body |-> "b"])

addComment_mutation ==
    mutate("addComment", "addComment", args, Done, <<>>)

call_addProjectItem ==
    \E contentId \in {"I_1", "PR_4"} :
      callMutation("addProjectItem", [projectId |-> "PVT_a", contentId |-> contentId])

\* return result.addProjectV2ItemById.item.id
addProjectItem_mutation ==
    mutate("addProjectItem", "addProjectV2ItemById", args, 
           Created("PVTI_n", "item"), <<"item">>)

call_addDraftItem ==
    \E body \in {Undefined, "b"} :
      callMutation("addDraftItem", [projectId |-> "PVT_a", title |-> "t", body |-> body])

\* return result.addProjectV2DraftIssue.projectItem.id
addDraftItem_mutation ==
    mutate("addDraftItem", "addProjectV2DraftIssue", args, 
           Created("PVTI_d", "projectItem"), <<"projectItem">>)

call_archiveProjectItem ==
    \E archived \in BOOLEAN :
      callMutation("archiveProjectItem",
                   [projectId |-> "PVT_a", itemId |-> "PVTI_1", archived |-> archived])

\* params.archived chooses the mutation; the variables leave it out
archiveProjectItem_mutation ==
    mutate("archiveProjectItem",
           IF args.archived THEN "archiveProjectV2Item" ELSE "unarchiveProjectV2Item",
           [projectId |-> args.projectId, itemId |-> args.itemId],
           Done, <<>>)

call_deleteProjectItem ==
    callMutation("deleteProjectItem", [projectId |-> "PVT_a", itemId |-> "PVTI_1"])

deleteProjectItem_mutation ==
    mutate("deleteProjectItem", "deleteProjectV2Item", args, Done, <<>>)

\* closeIssue(issueId)
call_closeIssue ==
    \E issueId \in {"I_1", "I_5"} : callMutation("closeIssue", [issueId |-> issueId])

\* await client(mutation, { issueId })
closeIssue_mutation ==
    mutate("closeIssue", "closeIssue", [issueId |-> args.issueId], Done, <<>>)

----------------------------------------------------------------------------
(* A caller that moves an item and lists the project right after.          *)

\* columns = await client.getProjectColumns(P, statusField)
roundTrip_columns ==
    /\ pc = "idle"
    /\ cmd.name = "none"
    /\ \E f \in StatusFieldNames :
         /\ cmd' = [name |-> "round-trip", statusField |-> f, step |-> "columns",
                    item |-> Undefined, option |-> Undefined, before |-> BoardItems]
         /\ invoke("getProjectColumns", "getProjectColumns",
                   [projectId |-> "PVT_a", statusFieldName |-> f],
                   serving(FieldWorld.data, BoardItems, FieldWorld.data))
    /\ UNCHANGED console

\* await client.moveIssue({ issueId: I, projectId: P, statusFieldId:
\* column.id, statusOptionId: column.optionId }) for a column just returned
roundTrip_move ==
    /\ cmd.name = "round-trip"
    /\ cmd.step = "columns"
    /\ pc = "done"
    /\ ret.kind = "return"
    /\ \E k \in 1..Len(ret.value), i \in 1..Len(BoardItems) :
         /\ cmd' = [cmd EXCEPT !.step = "move", !.item = BoardItems[i].id,
                               !.option = ret.value[k].name]
         /\ invoke("moveIssue", "moveIssue",
                   [issueId |-> BoardItems[i].id, projectId |-> "PVT_a",
                    statusFieldId |-> ret.value[k].id,
                    statusOptionId |-> ret.value[k].optionId],
                   BoardWorld)
    /\ UNCHANGED console

\* items = await client.getProjectItems(P, statusField), the very next call
roundTrip_items ==
    /\ cmd.name = "round-trip"
    /\ cmd.step = "move"
    /\ pc = "done"
    /\ ret.kind = "return"
    /\ cmd' = [cmd EXCEPT !.step = "items"]
    /\ invoke("getProjectItems", "getProjectItems",
              [projectId |-> "PVT_a", statusFieldName |-> cmd.statusField],
              serving(world.items, world.items, world.fields))
    /\ UNCHANGED console

SpecRoundTrip ==
    Init /\ [][\/ call_moveIssue
               \/ moveIssue_mutation
               \/ roundTrip_columns
               \/ getProjectColumns_page
               \/ roundTrip_move
               \/ roundTrip_items
               \/ getProjectItems_page]_vars

----------------------------------------------------------------------------
(* The item-move command of the CLI.                                       *)

\* the fields of the project the command works on; option names are
\* character sequences because the command normalizes them
CmdFields ==
    <<selectField("F_prio", "Priority",
                  <<option("O_hi", <<"H", "i", "g", "h">>),
                    option("O_ph", <<"ʕ", "Σ">>)>>),
      selectField("F_status", "Status",
                  <<option("O_todo", <<"T", "o", " ", "D", "o">>),
                    option("O_doing", <<"D", "o", "i", "n", "g">>),
                    option("O_done", <<"D", "o", "n", "e">>)>>),
      selectField("F_stage", "Stage", <<>>)>>

\* <project>, --status-field and --status as given on the command line
CmdProjects == { str(<<"4", "2">>), str(Roadmap \o <<" ", "V", "2">>), str(<<"B">>) }
CmdStatusFields == {"Status", "Priority", "Stage", "Sprint"}
CmdStatuses ==
    { <<" ", "t", "o", " ", "d", "o", " ">>, <<"D", "O", "N", "E">>, <<"D", "o">>,
      <<"B", "l", "o", "c", "k", "e", "d">>, <<>>, <<"U+2003", "D", "O", "N", "E">>, <<"ʕ", "σ">> }

\* const normalize = (s) => String(s || '').trim().toLowerCase()
normalize(s) == toLowerCase(trim(s))

\* a find that falls back to the first column
findColumnOrFirst(columns, desired) ==
    LET hits == { k \in 1..Len(columns) : normalize(columns[k].name) = desired }
    IN  IF hits = {} THEN 1 ELSE CHOOSE k \in hits : \A j \in hits : k <= j

\* columns.find((c) => normalize(c.name) === desired): its index, 0 when none
findColumn(columns, desired) ==
    LET hits == { k \in 1..Len(columns) : normalize(columns[k].name) = desired }
    IN  IF hits = {} THEN 0 ELSE CHOOSE k \in hits : \A j \in hits : k <= j

\* columns.map((c) => c.name).join(', ')
RECURSIVE joinNames(_)
joinNames(columns) ==
    IF columns = <<>> THEN <<>>
    ELSE IF Len(columns) = 1 THEN columns[1].name
    ELSE columns[1].name \o <<",", " ">> \o joinNames(Tail(columns))

\* the errors the command raises itself
ProjectNotFound == [message |-> "Project not found", errors |-> <<>>]
StatusFieldNotFound(f) ==
    [message |-> "Status field not found or has no options", statusField |-> f,
     errors |-> <<>>]
UnknownStatus(status, available) ==
    [message |-> "Unknown status", status |-> status, available |-> available,
     errors |-> <<>>]

\* the line handleError writes with console.error: the text of
\* JSON.stringify({ error: serialized }) under --json, 'Error:' and the
\* message otherwise (a line of console is the text that opens it)
errorLine(json) == IF json THEN "{ \"error\": " ELSE "Error:"

\* the line printOutput writes with console.log: the JSON text of the data
\* under --json, else what humanReadableFn prints
outputLine(json) == IF json THEN "{ \"success\": true" ELSE "Item moved to"

\* handleError(error): console.error, then process.exit(1); c is the command
\* as it stands when the error is caught
handleError(c, error) ==
    /\ console' = Append(console, errorLine(c.json))
    /\ cmd' = [c EXCEPT !.step = "exit", !.out = throw(error), !.exitCode = 1]
    /\ pc' = "exit"
    /\ UNCHANGED <<op, fn, args, world, after, acc, reqs, resps, ret, client>>

\* printOutput(data, humanReadableFn): console.log, and the action returns
printOutput(c, data) ==
    /\ cmd' = [c EXCEPT !.step = "exit", !.out = return(data), !.exitCode = 0,
                        !.log = Append(@, outputLine(c.json))]
    /\ pc' = "exit"
    /\ UNCHANGED <<op, fn, args, world, after, acc, reqs, resps, console, ret, client>>

\* catch (error) { handleError(error) } for a failed call, printOutput after
\* a successful one
exit(outcome) ==
    IF outcome.kind = "throw" THEN handleError(cmd, outcome.error)
    ELSE printOutput(cmd, outcome.value)

\* const project = await client.resolveProject(owner, projectIdent)
itemMove_resolveProject ==
    /\ pc = "idle"
    /\ cmd.name = "none"
    /\ \E w \in OwnerWorlds, ident \in CmdProjects, json \in BOOLEAN :
         LET n == numOf(ident)
         IN  /\ invoke("resolveProject", IF ~n.isNaN THEN "getProject" ELSE "getProjects",
                       [identifier |-> ident, number |-> n.value], w)
             /\ cmd' = [name |-> "item-move", step |-> "resolveProject",
                        projectIdent |-> ident, itemId |-> "PVTI_1",
                        project |-> Null, statusField |-> Undefined, status |-> <<>>,
                        column |-> <<>>, calls |-> <<"resolveProject">>, out |-> Pending,
                        json |-> json, log |-> <<>>, exitCode |-> -1]
    /\ UNCHANGED console

\* if (!project) throw ...; const columns = await client.getProjectColumns(
\* project.id, options.statusField).  The --status-field value is drawn here,
\* where the command first reads it.
itemMove_getProjectColumns ==
    /\ cmd.name = "item-move"
    /\ cmd.step = "resolveProject"
    /\ pc = "done"
    /\ IF ret.kind = "throw" THEN exit(ret)
       ELSE IF ret.value = Null THEN exit(throw(ProjectNotFound))
       ELSE /\ \E f \in CmdStatusFields :
                 /\ cmd' = [cmd EXCEPT !.step = "getProjectColumns", !.project = ret.value,
                                       !.statusField = f,
                                       !.calls = Append(@, "getProjectColumns")]
                 /\ invoke("getProjectColumns", "getProjectColumns",
                           [projectId |-> ret.value.id, statusFieldName |-> f],
                           serving(CmdFields, BoardItems, CmdFields))
            /\ UNCHANGED console

\* from the columns to the move: the two checks, then await client.moveIssue.
\* The --status value is drawn here, where the command first reads it.
itemMove_moveIssue ==
    /\ cmd.name = "item-move"
    /\ cmd.step = "getProjectColumns"
    /\ pc = "done"
    /\ IF ret.kind = "throw" THEN exit(ret)
       ELSE IF Len(ret.value) = 0 THEN exit(throw(StatusFieldNotFound(cmd.statusField)))
       ELSE \E status \in CmdStatuses :
              LET columns == ret.value
                  k == findColumn(columns, normalize(status))
              IN  IF k = 0 \/ ~isSet(columns[k].optionId)
                  THEN handleError([cmd EXCEPT !.status = status],
                                   UnknownStatus(status, joinNames(columns)))
                  ELSE /\ cmd' = [cmd EXCEPT !.step = "moveIssue", !.status = status,
                                    !.column = columns[k].name,
                                    !.calls = Append(@, "moveIssue")]
                       /\ invoke("moveIssue", "moveIssue",
                                 [issueId |-> cmd.itemId, projectId |-> cmd.project.id,
                                  statusFieldId |-> columns[1].id,
                                  statusOptionId |-> columns[k].optionId],
                                 serving(<<>>, world.items, world.fields))
                       /\ UNCHANGED console

\* printOutput({ success: true, ... }) or handleError(error)
itemMove_end ==
    /\ cmd.name = "item-move"
    /\ cmd.step = "moveIssue"
    /\ pc = "done"
    /\ exit(IF ret.kind = "throw" THEN ret
            ELSE return([success |-> TRUE, owner |-> "owner",
                         project |-> cmd.projectIdent, itemId |-> cmd.itemId,
                         status |-> cmd.column]))

SpecItemMove ==
    Init /\ [][\/ itemMove_resolveProject
               \/ getProject_org
               \/ getProject_user
               \/ getProjects_org
               \/ getProjects_user
               \/ itemMove_getProjectColumns
               \/ getProjectColumns_page
               \/ itemMove_moveIssue
               \/ moveIssue_mutation
               \/ itemMove_end]_vars

----------------------------------------------------------------------------
(* Operations started together on one client instance.                     *)

\* number of operations a caller starts without awaiting the previous one
Callers == 2

\* Promise.all([client.op1(...), client.op2(...)]): every operation is at
\* "new" until its first statement, await this.getClient(), has run
startAll ==
    /\ pc = "idle"
    /\ op' = "Promise.all"
    /\ pc' = "calls"
    /\ cmd' = [name |-> "Promise.all", at |-> [c \in 1..Callers |-> "new"]]
    /\ UNCHANGED <<fn, args, world, after, acc, reqs, resps, console, ret, client>>

\* where a caller of getClient stands after outcome g
stands(g) ==
    IF g.kind = "await" THEN "auth" ELSE IF g.kind = "throw" THEN "failed" ELSE "ready"

\* operation c runs getClient up to its first await (or to its end)
getClient_call(c) ==
    /\ pc = "calls"
    /\ cmd.at[c] = "new"
    /\ LET g == getClient(client)
       IN  /\ client' = g.client
           /\ cmd' = [cmd EXCEPT !.at[c] = stands(g)]
    /\ UNCHANGED <<op, fn, pc, args, world, after, acc, reqs, resps, console, ret>>

\* the exchange operation c started settles, and c's getClient runs to its end
getClient_settle(c) ==
    /\ pc = "calls"
    /\ cmd.at[c] = "auth"
    /\ \E x \in Exchanged :
         LET g == afterExchange(client, x)
         IN  /\ client' = g.client
             /\ cmd' = [cmd EXCEPT !.at[c] = stands(g)]
             /\ console' = IF x.kind = "throw"
                           THEN Append(console, "GitHub App auth failed")
                           ELSE console
    /\ UNCHANGED <<op, fn, pc, args, world, after, acc, reqs, resps, ret>>

SpecConcurrent ==
    InitAuth /\ [][\/ startAll
                   \/ \E c \in 1..Callers : getClient_call(c)
                   \/ \E c \in 1..Callers : getClient_settle(c)]_vars

----------------------------------------------------------------------------
(* History of a run, read back from the request and response logs.         *)

\* the responses to the requests issued with document `doc`, in order
RECURSIVE respsTo(_, _, _)
respsTo(rq, rs, doc) ==
    IF rq = <<>> THEN <<>>
    ELSE (IF Head(rq).doc = doc THEN <<Head(rs)>> ELSE <<>>) \o respsTo(Tail(rq), Tail(rs), doc)

\* the nodes of the pages among `rs`, page after page
RECURSIVE nodesIn(_)
nodesIn(rs) ==
    IF rs = <<>> THEN <<>>
    ELSE (IF Head(rs).kind = "data" /\ Head(rs).container THEN Head(rs).nodes ELSE <<>>)
         \o nodesIn(Tail(rs))

anyThrow(rs) == \E i \in 1..Len(rs) : rs[i].kind = "throw"

hasProject(r) == r.kind = "data" /\ r.container /\ r.project # Null

OrgDocs == {"orgProject", "orgProjects", "orgRepositories"}
UserDocs == {"userProject", "userProjects", "userRepositories"}
userRequests == { i \in 1..Len(reqs) : reqs[i].doc \in UserDocs }

----------------------------------------------------------------------------
(* Claims about the owner-scoped lookup and the project resolver.          *)

\* C1: in getProject, when the organization attempt yields no project (no
\* project in the response, a NOT_FOUND-typed error, or any other error), the
\* next thing that happens is the user-scope query, and a project it yields is
\* the result of getProject.
C1_UserFallback ==
    (fn = "getProject" /\ Len(resps) >= 1 /\ ~hasProject(resps[1])) =>
        /\ Len(resps) = 1 => (pc = "user" /\ ret = Pending)
        /\ Len(resps) >= 2 =>
             /\ reqs[2] = request("userProject", [number |-> args.number])
             /\ pc = "done"
             /\ hasProject(resps[2]) => ret = return(resps[2].project)

C1_Witness ==
    /\ op = "getProject"
    /\ pc = "done"
    /\ Len(resps) = 2
    /\ resps[1].kind = "throw"
    /\ ~isNotFound(resps[1].error)
    /\ hasProject(resps[2])
    /\ ret = return(resps[2].project)

\* C2: when the organization scope yields a concrete value (a project in
\* getProject, a non-empty list in getProjects and getRepositories) that value
\* is the result and no user-scope request is issued; the list operations
\* issue a user-scope request only when the organization scope yielded nothing.
C2_OrgValueWins ==
    /\ (fn = "getProject" /\ Len(resps) >= 1 /\ hasProject(resps[1])) =>
          /\ pc = "done"
          /\ ret = return(resps[1].project)
          /\ Len(reqs) = 1
    /\ \A d \in {"Projects", "Repositories"} :
         LET orgResps == respsTo(reqs, resps, "org" \o d)
             orgNodes == nodesIn(orgResps)
         IN  (fn = "get" \o d) =>
               /\ (pc = "done" /\ ~anyThrow(orgResps) /\ orgNodes # <<>>) =>
                    /\ userRequests = {}
                    /\ op = fn => ret = return(orgNodes)
               /\ userRequests # {} => (anyThrow(orgResps) \/ orgNodes = <<>>)
               /\ (userRequests # {} /\ d = "Projects") => orgNodes = <<>>

C2_Witness ==
    /\ op = "getProjects"
    /\ pc = "done"
    /\ world.user # <<>>
    /\ Len(reqs) = 2
    /\ userRequests = {}
    /\ Len(nodesIn(resps)) = 3
    /\ ret = return(nodesIn(resps))

\* the requests and the result of getProject(owner, n) for given responses
byNumberRequests(n, rs) ==
    IF rs = <<>> THEN <<>>
    ELSE IF Len(rs) = 1 THEN <<request("orgProject", [number |-> n])>>
    ELSE <<request("orgProject", [number |-> n]), request("userProject", [number |-> n])>>

byNumberResult(rs) ==
    IF hasProject(rs[1]) THEN return(rs[1].project)
    ELSE IF Len(rs) >= 2 /\ hasProject(rs[2]) THEN return(rs[2].project)
    ELSE return(Null)

\* C3: resolveProject(owner, "42") and resolveProject(owner, 42) behave alike:
\* both issue exactly the requests of getProject(owner, 42), return its result,
\* and issue no project-listing request (likewise for "7" and 7).
C3_NumeralEqualsNumber ==
    \A pair \in { <<42, <<"4", "2">> >>, <<7, <<"7">> >> } :
        (op = "resolveProject" /\ args.identifier \in {num(pair[1]), str(pair[2])}) =>
            /\ fn = "getProject"
            /\ reqs = byNumberRequests(pair[1], resps)
            /\ pc = "done" => ret = byNumberResult(resps)
            /\ (pc # "done" /\ resps # <<>>) => ~hasProject(resps[1])

C3_Witness ==
    /\ op = "resolveProject"
    /\ args.identifier = str(<<"4", "2">>)
    /\ pc = "done"
    /\ reqs = <<request("orgProject", [number |-> 42])>>
    /\ ret = return(PC)

\* C4: resolveProject looks a project up by number only for an identifier
\* that is an integer; an identifier that is a title, also one that starts
\* with digits ("2024 Roadmap"), is resolved by title match on the project list.
C4_TitleNeverByNumber ==
    (/\ op = "resolveProject"
     /\ args.identifier.type = "string"
     /\ ~isIntegerNumeral(args.identifier.str)) =>
        \A i \in 1..Len(reqs) : reqs[i].doc \in {"orgProjects", "userProjects"}

\* the list getProjects hands to the title match
projectsListed ==
    LET orgNodes == nodesIn(respsTo(reqs, resps, "orgProjects"))
    IN  IF orgNodes # <<>> THEN orgNodes ELSE nodesIn(respsTo(reqs, resps, "userProjects"))

titleEquals(p, identifier) == trim(toLowerCase(p.title)) = trim(toLowerCase(identifier.str))

\* C5: for a textual identifier resolveProject returns the first project of
\* the list whose title equals the identifier after lower-casing and trimming;
\* a project whose title only starts with the identifier is not returned; null
\* when no title is equal.
C5_FirstExactTitle ==
    (op = "resolveProject" /\ fn = "getProjects" /\ pc = "done") =>
        LET list == projectsListed
            hits == { i \in 1..Len(list) : titleEquals(list[i], args.identifier) }
        IN  /\ hits = {} => ret = return(Null)
            /\ hits # {} => ret = return(list[CHOOSE i \in hits : \A j \in hits : i <= j])

C5_Witness ==
    /\ op = "resolveProject"
    /\ args.identifier = str(Roadmap)
    /\ pc = "done"
    /\ projectsListed = <<PA, PB, PC>>
    /\ ret = return(PB)

C5_WitnessNull ==
    /\ op = "resolveProject"
    /\ args.identifier = str(Roadmap)
    /\ pc = "done"
    /\ projectsListed = <<PA>>
    /\ ret = return(Null)

\* a title with a capital of a supplementary plane and a final sigma, found by
\* its lower-case form
C5_WitnessSupplementary ==
    /\ op = "resolveProject"
    /\ args.identifier = str(<<"ґ", "U+D801", "U+DC28", "ς", "U+3000">>)
    /\ pc = "done"
    /\ ret = return(PE)

----------------------------------------------------------------------------
(* Claims about the pagination loops and the normalizers.                  *)

ids(records) == [i \in 1..Len(records) |-> records[i].id]

RECURSIVE definedIds(_)
definedIds(nodes) ==
    IF nodes = <<>> THEN <<>>
    ELSE (IF Head(nodes).id \in {Undefined, NullStr, ""} THEN <<>> ELSE <<Head(nodes).id>>)
         \o definedIds(Tail(nodes))

take(seq, n) == SubSeq(seq, 1, Min(n, Len(seq)))

\* the limit in force: the caller's, at least 1, or 50 when none is given
limitInForce ==
    IF ~args.limit.given THEN 50 ELSE IF args.limit.value < 1 THEN 1 ELSE args.limit.value

allPages(rs) == \A i \in 1..Len(rs) : rs[i].kind = "data" /\ rs[i].container

\* C6: an unbounded collector returns every node of every page it was served,
\* in page order then in-page order; a bounded collector returns exactly the
\* first `limit` nodes of that sequence, cut inside a page if need be, and
\* issues no page request once the accumulator holds `limit` nodes.
C6_Collector ==
    /\ (fn = "getProjectColumns" /\ pc = "done" /\ ret.kind = "return") =>
          acc = nodesIn(resps)
    /\ (fn = "getProjectItems" /\ pc = "done" /\ ret.kind = "return") =>
          /\ acc = nodesIn(resps)
          /\ ids(ret.value) = definedIds(nodesIn(resps))
    /\ (op \in {"getProjects", "getRepositories"} /\ pc = "done" /\ ~anyThrow(resps)) =>
          ret = return(nodesIn(resps))
    /\ (fn \in {"listIssues", "listIssueComments"}) =>
          /\ (pc = "done" /\ ret.kind = "return" /\ allPages(resps)) =>
                /\ ids(ret.value) = take(ids(nodesIn(resps)), limitInForce)
                /\ Len(ret.value) = Min(limitInForce, Len(nodesIn(resps)))
          /\ \A i \in 2..Len(reqs) :
                Len(nodesIn(SubSeq(resps, 1, i - 1))) < limitInForce

\* 3 pages of 2 with limit 3: pages 1 and 2 are requested, page 3 is not
C6_Witness ==
    /\ op = "listIssues"
    /\ args.limit = limitOption(3)
    /\ pc = "done"
    /\ Len(reqs) = 2
    /\ ret.kind = "return"
    /\ allPages(resps)
    /\ Len(resps[1].nodes) = 2
    /\ Len(resps[2].nodes) = 2
    /\ resps[2].hasNextPage
    /\ truthy(resps[2].endCursor)
    /\ ids(ret.value) = <<"I_1", "I_2", "I_3">>

C6_WitnessUnbounded ==
    /\ op = "getProjectItems"
    /\ pc = "done"
    /\ Len(reqs) = 3
    /\ ret.kind = "return"
    /\ \A i \in 1..3 : resps[i].kind = "data" /\ Len(resps[i].nodes) = 2
    /\ ids(ret.value) = <<"PVTI_1", "PVTI_2", "PVTI_3", "PVTI_5", "PVTI_6">>

blank(s) == s \in {Undefined, NullStr, ""}

\* C7: getProjectItem reports "No Title" when the content is present (it has
\* a discriminator tag) and its title is blank or missing, "REDACTED" with
\* content.__typename null when the content is entirely absent (no tag, no
\* title), and a non-blank title unchanged.
C7_ItemTitle ==
    (op = "getProjectItem" /\ pc = "done" /\ ret.kind = "return" /\ ret.value # Null) =>
        LET raw == resps[1].node.content
            out == ret.value.content
            tagged == raw # Null /\ ~blank(raw.__typename)
            titled == raw # Null /\ ~blank(raw.title)
        IN  /\ (tagged /\ ~titled) =>
                  (out.title = "No Title" /\ out.__typename = raw.__typename)
            /\ ~tagged => out.__typename = NullStr
            /\ (~tagged /\ ~titled) => out.title = "REDACTED"
            /\ titled => out.title = raw.title

C7_Witness ==
    /\ op = "getProjectItem"
    /\ pc = "done"
    /\ ret.kind = "return"
    /\ resps[1].kind = "data"
    /\ resps[1].node = Item3
    /\ ret.value.content.title = "REDACTED"
    /\ ret.value.content.__typename = NullStr

\* a content object without tag and title is reported like an absent one
C7_WitnessUntagged ==
    /\ op = "getProjectItem"
    /\ pc = "done"
    /\ ret.kind = "return"
    /\ resps[1].kind = "data"
    /\ resps[1].node = Item7
    /\ ret.value.isArchived = FALSE
    /\ ret.value.content.title = "REDACTED"
    /\ ret.value.content.__typename = NullStr

C7_WitnessNoTitle ==
    /\ op = "getProjectItem"
    /\ pc = "done"
    /\ ret.kind = "return"
    /\ resps[1].kind = "data"
    /\ resps[1].node = Item2
    /\ ret.value.content.title = "No Title"

\* the raw node a listed item was built from
rawOf(item) == CHOOSE n \in { nodesIn(resps)[i] : i \in 1..Len(nodesIn(resps)) } : n.id = item.id

\* C8: getProjectItems reports an item whose content is absent with title
\* "REDACTED", and a draft note with a blank title with title "No Title".
C8_ListedRedacted ==
    (op = "getProjectItems" /\ pc = "done" /\ ret.kind = "return") =>
        \A i \in 1..Len(ret.value) :
            LET raw == rawOf(ret.value[i]).content
            IN  /\ raw = Null => ret.value[i].content.title = "REDACTED"
                /\ (raw # Null /\ blank(raw.title)) => ret.value[i].content.title = "No Title"

\* st is the name of the first value of field f among fvs, absent when none
statusIs(fvs, f, st) ==
    /\ st # ""
    /\ \/ st = Undefined /\ \A i \in 1..Len(fvs) : fvs[i].field # f
       \/ \E i \in 1..Len(fvs) :
            /\ fvs[i].field = f
            /\ fvs[i].name = st
            /\ \A j \in 1..(i - 1) : fvs[j].field # f

\* the linked item of search node `id` that a record names
linkOf(rec) ==
    LET nodes == nodesIn(resps)
        node == CHOOSE n \in { nodes[i] : i \in 1..Len(nodes) } : n.id = rec.issue.id
    IN  CHOOSE l \in { node.projectItems[i] : i \in 1..Len(node.projectItems) } :
            l.id = rec.projectItemId

\* C9: in getProjectItems, getProjectItem and listProjectIssues the status is
\* the name of the first field value whose field name equals the status-field
\* name exactly (case-sensitively); no value of another field is reported; it
\* is absent, and never the empty string, when no field value matches.
C9_Status ==
    /\ (op = "getProjectItems" /\ pc = "done" /\ ret.kind = "return") =>
          \A i \in 1..Len(ret.value) :
              statusIs(rawOf(ret.value[i]).fieldValues, args.statusFieldName,
                       ret.value[i].status)
    /\ (op = "getProjectItem" /\ pc = "done" /\ ret.kind = "return" /\ ret.value # Null) =>
          statusIs(resps[1].node.fieldValues, args.statusFieldName, ret.value.status)
    /\ (op = "listProjectIssues" /\ pc = "done" /\ ret.kind = "return") =>
          \A i \in 1..Len(ret.value) :
              statusIs(linkOf(ret.value[i]).fieldValues, args.statusFieldName,
                       ret.value[i].status)

C9_Witness ==
    /\ op = "getProjectItems"
    /\ args.statusFieldName = "Status"
    /\ pc = "done"
    /\ ret.kind = "return"
    /\ Len(ret.value) = 2
    /\ ret.value[1].id = "PVTI_1"
    /\ ret.value[1].status = "Todo"
    /\ ret.value[2].id = "PVTI_2"
    /\ ret.value[2].status = Undefined

\* C10: every record of listProjectIssues comes from a search node tagged
\* Issue that has a linked item of the target project; results without such a
\* link and nodes that are not issues are skipped without an error.
C10_OnlyLinkedIssues ==
    (op = "listProjectIssues") =>
        LET nodes == nodesIn(resps)
        IN  /\ \A k \in 1..Len(acc) :
                 \E i \in 1..Len(nodes) :
                    /\ nodes[i].__typename = "Issue"
                    /\ nodes[i].id = acc[k].issue.id
                    /\ \E j \in 1..Len(nodes[i].projectItems) :
                          /\ nodes[i].projectItems[j].project.id = args.projectId
                          /\ nodes[i].projectItems[j].id = acc[k].projectItemId
            /\ pc = "done" =>
                 \/ ret = return(acc)
                 \/ resps[Len(resps)].kind = "throw" /\ ret = throw(resps[Len(resps)].error)

C10_Witness ==
    /\ op = "listProjectIssues"
    /\ pc = "done"
    /\ ret.kind = "return"
    /\ nodesIn(resps) = <<Search1, Search2, Search3, Search4>>
    /\ Len(ret.value) = 1
    /\ ret.value[1].issue.id = "I_1"
    /\ ret.value[1].projectItemId = "PVTI_a1"

----------------------------------------------------------------------------
(* Claims about errors in the owner-scoped lookup.                         *)

lastResp == resps[Len(resps)]
lastReq == reqs[Len(reqs)]

\* C12: in getProject, getProjects and getRepositories a transport error
\* raised by the user-scope attempt, and an error that is not NOT_FOUND-typed
\* raised when no fallback is left, is the outcome of the operation: the
\* caller gets that same error, never null or a list.
C12_FinalErrorPropagates ==
    (op \in {"getProject", "getProjects", "getRepositories"}
       /\ pc = "done" /\ resps # <<>> /\ lastResp.kind = "throw"
       /\ (lastReq.doc \in UserDocs \/ ~isNotFound(lastResp.error))) =>
        ret = throw(lastResp.error)

\* the nodes a scope contributes when a failed scope contributes nothing
scopeNodes(doc) ==
    LET rs == respsTo(reqs, resps, doc)
    IN  IF anyThrow(rs) THEN <<>> ELSE nodesIn(rs)

\* C13: getProjects returns no partial collection: the pages of a scope
\* whose later page request failed are not part of the returned list.
C13_NoPartialCollection ==
    (op = "getProjects" /\ pc = "done" /\ ret.kind = "return") =>
        ret.value = scopeNodes("orgProjects") \o scopeNodes("userProjects")

----------------------------------------------------------------------------
(* Claims about the page loops: limits and errors.                         *)

\* C20: in getProjectColumns, getProjectItems, listIssues, listIssueComments
\* and listProjectIssues a transport error on any page is the outcome of the
\* operation: that same error is raised, no list is returned and no page is
\* requested after the one that failed.
C20_PageErrorRaised ==
    (fn \in Bounded \cup Unbounded) =>
        \A i \in 1..Len(resps) :
            resps[i].kind = "throw" =>
                /\ i = Len(resps)
                /\ Len(reqs) = i
                /\ pc = "done"
                /\ ret.kind = "throw"
                /\ ret.error = resps[i].error

\* the second search page fails after a first page with nodes
C20_Witness ==
    /\ op = "listProjectIssues"
    /\ pc = "done"
    /\ Len(resps) = 2
    /\ resps[1].kind = "data"
    /\ resps[1].nodes # <<>>
    /\ resps[2] = [kind |-> "throw", error |-> ForbiddenError]
    /\ ret.kind = "throw"
    /\ ret.error = ForbiddenError

\* C18: listIssues, listIssueComments and listProjectIssues return at most
\* `limit` records whatever pages the service returns, at most 50 when no
\* limit is given; a limit of 0 or less counts as 1: at most one record is
\* returned and at least one page is requested.
C18_AtMostLimit ==
    (fn \in Bounded /\ pc = "done" /\ ret.kind = "return") =>
        /\ (~args.limit.given) => Len(ret.value) <= 50
        /\ (args.limit.given /\ args.limit.value >= 1) =>
              Len(ret.value) <= args.limit.value
        /\ (args.limit.given /\ args.limit.value <= 0) =>
              /\ Len(ret.value) <= 1
              /\ Len(reqs) >= 1

\* limit 0 and a first page of two issues: one record comes back
C18_Witness ==
    /\ op = "listIssues"
    /\ args.limit = limitOption(0)
    /\ pc = "done"
    /\ Len(reqs) = 1
    /\ resps[1].kind = "data"
    /\ Len(resps[1].nodes) = 2
    /\ ret.kind = "return"
    /\ Len(ret.value) = 1

\* a negative limit on the project search
C18_WitnessNegative ==
    /\ op = "listProjectIssues"
    /\ args.limit = limitOption(-1)
    /\ pc = "done"
    /\ ret.kind = "return"
    /\ Len(ret.value) = 1
    /\ Len(nodesIn(resps)) >= 2

----------------------------------------------------------------------------
(* Claims about the project issue search.                                  *)

\* the search string the claim describes, written out
expectedQuery ==
    "org:" \o args.owner \o " is:issue"
    \o (IF args.state \in {Undefined, "open"} THEN " is:open" ELSE "")
    \o (IF args.state = "closed" THEN " is:closed" ELSE "")
    \o (IF args.repo # Undefined THEN " repo:" \o args.repo ELSE "")

\* C15: every search request of listProjectIssues carries the same string:
\* org:<owner>, is:issue, then is:open exactly when state is "open" or
\* omitted, is:closed exactly when state is "closed", neither for "all",
\* then repo:<repo> exactly when the repo option is given, joined by spaces.
C15_SearchString ==
    (fn = "listProjectIssues") =>
        \A i \in 1..Len(reqs) : reqs[i].variables.q = expectedQuery

\* two pages of a closed-issue search restricted to a repository
C15_Witness ==
    /\ op = "listProjectIssues"
    /\ args.state = "closed"
    /\ args.repo = "o/r"
    /\ Len(reqs) = 2
    /\ reqs[1].variables.q = "org:owner is:issue is:closed repo:o/r"
    /\ reqs[2].variables.q = "org:owner is:issue is:closed repo:o/r"

\* the default state and no repository
C15_WitnessDefault ==
    /\ op = "listProjectIssues"
    /\ args.state = Undefined
    /\ args.repo = Undefined
    /\ Len(reqs) = 2
    /\ reqs[2].variables.q = "org:owner is:issue is:open"

----------------------------------------------------------------------------
(* Claims about the lookups of one entity.                                 *)

\* the response carries no entity, or reports its absence as NOT_FOUND
absent(r) ==
    IF r.kind = "throw" THEN isNotFound(r.error)
    ELSE IF fn = "getProject" THEN ~hasProject(r)
    ELSE IF fn = "getIssue" THEN ~r.container \/ r.issue = Null
    ELSE r.node = Null

\* C16: getProject, getIssue, getIssueById and getProjectItem never raise for
\* an entity that does not exist: they return null when the last response
\* lacks the entity and when the transport reports a NOT_FOUND-typed error.
C16_AbsentIsNull ==
    (op \in {"getProject", "getIssue", "getIssueById", "getProjectItem"}
       /\ pc = "done" /\ resps # <<>> /\ absent(lastResp)) =>
        ret = return(Null)

----------------------------------------------------------------------------
(* Claims about credentials.                                               *)

\* no token was passed, GITHUB_TOKEN is unset and the App variables are not
\* all set
noCredentials(c) ==
    /\ c.token = Undefined
    /\ c.env.GITHUB_TOKEN = Undefined
    /\ \/ c.env.GITHUB_APP_ID = Undefined
       \/ c.env.GITHUB_APP_PRIVATE_KEY = Undefined
       \/ c.env.GITHUB_APP_INSTALLATION_ID = Undefined

\* C14: constructing the client raises nothing and reads nothing; with no
\* credential source available every operation ends with the configuration
\* error before any transport request, and an operation that ends without a
\* handle has raised that error and sent no request.
C14_ConfigErrorEagerly ==
    /\ (op = "none") => (ret = Pending /\ ~client.graphqlClient.created)
    /\ (op # "none" /\ noCredentials(client)) =>
          /\ pc = "done"
          /\ ret.kind = "throw"
          /\ ret.error = ConfigError
          /\ reqs = <<>>
          /\ client.exchanges = 0
    /\ (op # "none" /\ pc = "done" /\ ~client.graphqlClient.created) =>
          /\ ret.kind = "throw"
          /\ ret.error = ConfigError
          /\ reqs = <<>>
    /\ (reqs # <<>>) => client.graphqlClient.created

\* getProject on a client without any credential
C14_Witness ==
    /\ op = "getProject"
    /\ noCredentials(client)
    /\ pc = "done"
    /\ ret.kind = "throw"
    /\ ret.error = ConfigError
    /\ reqs = <<>>

\* a bounded loop on a client whose App exchange failed and that has no token
C14_WitnessExchange ==
    /\ op = "listIssues"
    /\ client.exchanges = 1
    /\ ~client.graphqlClient.created
    /\ pc = "done"
    /\ ret.kind = "throw"
    /\ reqs = <<>>

\* C19: a client instance performs at most one credential exchange: a handle
\* once created is reused, and operations started before the first
\* initialization finished share that initialization.
C19_OneExchange == client.exchanges <= 1

----------------------------------------------------------------------------
(* Claims about moving an item.                                            *)

\* C11: after moveIssue set the status field of item I to option X, with the
\* field id and option id getProjectColumns returned, the very next
\* getProjectItems of the project reports I with the name of X as status and
\* every other item with the status it had before; I is in the list when the
\* service served every item.
C11_RoundTrip ==
    (cmd.name = "round-trip" /\ cmd.step = "items" /\ pc = "done" /\ ret.kind = "return") =>
        /\ \A k \in 1..Len(ret.value) :
              IF ret.value[k].id = cmd.item
              THEN ret.value[k].status = cmd.option
              ELSE \E i \in 1..Len(cmd.before) :
                      /\ cmd.before[i].id = ret.value[k].id
                      /\ statusIs(cmd.before[i].fieldValues, cmd.statusField,
                                  ret.value[k].status)
        /\ (nodesIn(resps) = world.items) =>
              \E k \in 1..Len(ret.value) : ret.value[k].id = cmd.item

\* PVTI_2 had no Status value; it is moved to "In Progress" and listed so
C11_Witness ==
    /\ cmd.name = "round-trip"
    /\ cmd.step = "items"
    /\ cmd.statusField = "Status"
    /\ cmd.item = "PVTI_2"
    /\ cmd.option = "In Progress"
    /\ pc = "done"
    /\ ret.kind = "return"
    /\ Len(ret.value) = 5
    /\ ret.value[2].id = "PVTI_2"
    /\ ret.value[2].status = "In Progress"
    /\ ret.value[1].status = "Todo"
    /\ ret.value[3].status = "Done"

\* the options the service holds for the field the command was given
fieldOptions ==
    LET hits == { i \in 1..Len(world.fields) : world.fields[i].name = cmd.statusField }
    IN  IF hits = {} THEN <<>>
        ELSE world.fields[CHOOSE i \in hits : \A j \in hits : i <= j].options

\* the status given equals an option name once both are trimmed and lower-cased
matchesOption(status) ==
    \E k \in 1..Len(fieldOptions) :
        toLowerCase(trim(fieldOptions[k].name)) = toLowerCase(trim(status))

\* name occurs in text as a run of consecutive characters
occursIn(name, text) ==
    \E i \in 0..(Len(text) - Len(name)) : SubSeq(text, i + 1, i + Len(name)) = name

\* C17: item-move calls moveIssue only for a status field that has options
\* and a status equal to one of their names after trimming and lower-casing
\* both; with a status that equals none the command ends with the unknown
\* status error, whose message lists every option name, and with a field
\* that is missing or has no options it ends with the status field error.
C17_UnknownStatus ==
    (cmd.name = "item-move") =>
        /\ (fn = "moveIssue" \/ cmd.step = "moveIssue"
              \/ \E i \in 1..Len(cmd.calls) : cmd.calls[i] = "moveIssue") =>
              /\ fieldOptions # <<>>
              /\ matchesOption(cmd.status)
        /\ \A i \in 1..Len(reqs) :
              reqs[i].doc = "updateProjectV2ItemFieldValue" => matchesOption(cmd.status)
        /\ (cmd.step = "exit" /\ cmd.calls = <<"resolveProject", "getProjectColumns">>
              /\ ret.kind = "return") =>
              /\ cmd.out.kind = "throw"
              /\ IF ret.value = <<>>
                 THEN cmd.out.error.message = "Status field not found or has no options"
                 ELSE /\ cmd.out.error.message = "Unknown status"
                      /\ cmd.out.error.status = cmd.status
                      /\ ~matchesOption(cmd.status)
                      /\ \A k \in 1..Len(fieldOptions) :
                            occursIn(fieldOptions[k].name, cmd.out.error.available)
        /\ (cmd.step = "exit" /\ Len(cmd.calls) >= 2 /\ fieldOptions = <<>>) =>
              cmd.out.kind = "throw"

\* --status Blocked on a field with the options To Do, Doing, Done
C17_Witness ==
    /\ cmd.name = "item-move"
    /\ cmd.step = "exit"
    /\ cmd.statusField = "Status"
    /\ cmd.status = <<"B", "l", "o", "c", "k", "e", "d">>
    /\ cmd.calls = <<"resolveProject", "getProjectColumns">>
    /\ cmd.out.kind = "throw"
    /\ cmd.out.error.message = "Unknown status"
    /\ cmd.out.error.available =
         <<"T", "o", " ", "D", "o", ",", " ", "D", "o", "i", "n", "g", ",", " ",
           "D", "o", "n", "e">>

\* --status-field Stage, a field without options
C17_WitnessNoOptions ==
    /\ cmd.name = "item-move"
    /\ cmd.step = "exit"
    /\ cmd.statusField = "Stage"
    /\ cmd.calls = <<"resolveProject", "getProjectColumns">>
    /\ ret = return(<<>>)
    /\ cmd.out.kind = "throw"
    /\ cmd.out.error.message = "Status field not found or has no options"

\* --status " to do " moves the item to To Do
C17_WitnessMoved ==
    /\ cmd.name = "item-move"
    /\ cmd.step = "exit"
    /\ cmd.status = <<" ", "t", "o", " ", "d", "o", " ">>
    /\ cmd.out.kind = "return"
    /\ reqs[1].variables.value.singleSelectOptionId = "O_todo"
    /\ reqs[1].variables.fieldId = "F_status"

\* a sigma after U+0295, which is not a cased letter, is no final sigma: the
\* option U+0295 U+03A3 is the status U+0295 U+03C3
C17_WitnessUncased ==
    /\ cmd.name = "item-move"
    /\ cmd.step = "exit"
    /\ cmd.status = <<"ʕ", "σ">>
    /\ cmd.out.kind = "return"
    /\ reqs[1].variables.value.singleSelectOptionId = "O_ph"
    /\ reqs[1].variables.fieldId = "F_prio"

----------------------------------------------------------------------------
(* Claims about the order of the requests of one operation.                *)

\* request i opens a scope: it is the first request of its document
opensScope(i) == i = 1 \/ reqs[i].doc # reqs[i - 1].doc

\* the issues among `nodes` that are linked to project `projectId`
linkedIssues(nodes, projectId) ==
    { i \in 1..Len(nodes) :
        /\ nodes[i].__typename = "Issue"
        /\ \E k \in 1..Len(nodes[i].projectItems) :
             nodes[i].projectItems[k].project.id = projectId }

\* what a bounded loop holds after its first n pages
collectedAfter(n) ==
    LET nodes == nodesIn(SubSeq(resps, 1, n))
    IN  IF fn = "listProjectIssues"
        THEN Cardinality(linkedIssues(nodes, args.projectId))
        ELSE Len(nodes)

\* C21: in every pagination loop the first request of a scope carries
\* after = null; each later request carries the endCursor of the page received
\* immediately before it, and is issued only if that page reported hasNextPage
\* true and, in a bounded loop, the limit is not yet reached; the user scope
\* of getProjects and getRepositories starts again at null.
C21_CursorProtocol ==
    \A i \in 1..Len(reqs) :
        IF opensScope(i)
        THEN reqs[i].variables.after = NULL
        ELSE /\ resps[i - 1].kind = "data"
             /\ resps[i - 1].container
             /\ resps[i - 1].hasNextPage
             /\ reqs[i].variables.after = resps[i - 1].endCursor
             /\ reqs[i].variables.after # NULL
             /\ fn \in Bounded => collectedAfter(i - 1) < limitInForce

\* three pages of one loop, the third asked for with the second page's cursor
C21_Witness ==
    /\ op = "listIssueComments"
    /\ Len(reqs) = 3
    /\ reqs[1].variables.after = NULL
    /\ reqs[2].variables.after = resps[1].endCursor
    /\ reqs[3].variables.after = resps[2].endCursor
    /\ resps[1].endCursor # resps[2].endCursor

\* the organization loop of getProjects ran on a cursor, the user loop starts at null
C21_WitnessUserScope ==
    /\ op = "getProjects"
    /\ Len(reqs) = 3
    /\ reqs[2].doc = "orgProjects"
    /\ reqs[2].variables.after # NULL
    /\ reqs[3].doc = "userProjects"
    /\ reqs[3].variables.after = NULL

\* response i closes its organization scope: the single project query was
\* answered, the loop threw, or the page offers no cursor to go on with
orgComplete(i) ==
    \/ reqs[i].doc = "orgProject"
    \/ resps[i].kind = "throw"
    \/ ~resps[i].container
    \/ ~resps[i].hasNextPage
    \/ resps[i].endCursor < 0

\* C22: within one operation a request is issued only after the previous one
\* has returned or failed (every request in the log has its response before
\* the next is appended, no page is asked for ahead of its cursor), and in
\* getProject, getProjects and getRepositories every organization-scope
\* request, all pages included, is answered before the first user-scope
\* request is issued.
C22_Sequential ==
    /\ Len(resps) = Len(reqs)
    /\ pc = "user" =>
         /\ Len(reqs) >= 1
         /\ reqs[Len(reqs)].doc \in OrgDocs => orgComplete(Len(reqs))
    /\ \A j \in 1..Len(reqs) :
         /\ (j > 1 /\ reqs[j].doc = reqs[j - 1].doc) =>
               (resps[j - 1].kind = "data"
                /\ reqs[j].variables.after = resps[j - 1].endCursor)
         /\ reqs[j].doc \in UserDocs =>
               /\ j > 1
               /\ \A k \in j..Len(reqs) : reqs[k].doc \in UserDocs
               /\ reqs[j - 1].doc \in OrgDocs => orgComplete(j - 1)

\* two organization pages, the second one failing, then two user pages
C22_Witness ==
    /\ op = "getRepositories"
    /\ pc = "done"
    /\ Len(reqs) = 4
    /\ reqs[2].doc = "orgRepositories"
    /\ resps[1].nodes # <<>>
    /\ resps[2].kind = "throw"
    /\ reqs[3].doc = "userRepositories"
    /\ reqs[4].doc = "userRepositories"

\* the position of a method that is inside the loop of document `doc`
scopePc(doc) == IF doc \in OrgDocs THEN "org" ELSE IF doc \in UserDocs THEN "user" ELSE "loop"

\* response i gives its loop a reason to end
ends(i) ==
    \/ resps[i].kind = "throw"
    \/ ~resps[i].container
    \/ ~resps[i].hasNextPage
    \/ resps[i].endCursor < 0
    \/ (fn \in Bounded /\ collectedAfter(i) >= limitInForce)

\* no loop goes on after a response that ends it
loopEnds ==
    \A i \in 1..Len(reqs) :
        ends(i) => IF i < Len(reqs) THEN reqs[i + 1].doc # reqs[i].doc
                   ELSE pc # scopePc(reqs[i].doc)

inLoop == pc \in {"org", "user", "loop"}

\* C23: every pagination loop ends when a page reports hasNextPage false,
\* when it reports hasNextPage true with a null or empty endCursor, or, in a
\* bounded loop, when the accumulator reaches the limit; and on a service
\* that eventually returns such a page every list operation eventually
\* returns or raises.
C23_Terminates == []loopEnds /\ (inLoop ~> (pc = "done" /\ ret.kind \in {"return", "throw"}))

\* a loop left on a page that announced more but gave an empty cursor
C23_Witness ==
    /\ op = "getProjectColumns"
    /\ pc = "done"
    /\ ret.kind = "return"
    /\ Len(reqs) = 2
    /\ resps[2].hasNextPage
    /\ resps[2].endCursor = EMPTY

\* a bounded loop left on a page that offered a further cursor
C23_WitnessLimit ==
    /\ op = "listProjectIssues"
    /\ pc = "done"
    /\ ret.kind = "return"
    /\ Len(reqs) = 2
    /\ resps[2].hasNextPage
    /\ resps[2].endCursor >= 0
    /\ Len(ret.value) = limitInForce

----------------------------------------------------------------------------
(* Claims about the credential sources.                                    *)

exchangeFailed == \E i \in 1..Len(console) : console[i] = "GitHub App auth failed"

configErrorRaised == ret.kind = "throw" /\ ret.error = ConfigError

\* C24: an explicit constructor token is used and no app exchange is
\* attempted; otherwise, with app id, private key and installation id all
\* present, the token of the exchange is used; otherwise, or when the exchange
\* fails, the environment's static token is used; the configuration error is
\* raised only when all three sources yield no token.
C24_CredentialPriority ==
    LET h == client.graphqlClient
        explicit == client.token \notin {Undefined, NullStr, ""}
        static == client.env.GITHUB_TOKEN \notin {Undefined, NullStr, ""}
        app == /\ client.env.GITHUB_APP_ID \notin {Undefined, NullStr, ""}
               /\ client.env.GITHUB_APP_PRIVATE_KEY \notin {Undefined, NullStr, ""}
               /\ client.env.GITHUB_APP_INSTALLATION_ID \notin {Undefined, NullStr, ""}
    IN  /\ explicit =>
              /\ client.exchanges = 0
              /\ h.created => h.authorization = "token " \o client.token
              /\ ~configErrorRaised
        /\ (~explicit /\ app /\ h.created) =>
              /\ client.exchanges = 1
              /\ ~exchangeFailed => h.authorization = "token ghs_app"
              /\ exchangeFailed =>
                    (static /\ h.authorization = "token " \o client.env.GITHUB_TOKEN)
        /\ (~explicit /\ ~app) =>
              /\ client.exchanges = 0
              /\ h.created =>
                    (static /\ h.authorization = "token " \o client.env.GITHUB_TOKEN)
        /\ configErrorRaised =>
              /\ ~explicit
              /\ ~static
              /\ app => (client.exchanges = 1 /\ exchangeFailed)
        /\ (pc \notin {"idle", "auth"} /\ ~h.created) => configErrorRaised

\* the exchange failed and the operation went on with GITHUB_TOKEN
C24_Witness ==
    /\ client.token = Undefined
    /\ client.exchanges = 1
    /\ exchangeFailed
    /\ client.graphqlClient.authorization = "token ghp_env"
    /\ Len(reqs) >= 1

\* constructor token and app credentials both present: no exchange
C24_WitnessExplicit ==
    /\ client.token = "ghp_arg"
    /\ client.env.GITHUB_APP_ID = "12345"
    /\ client.env.GITHUB_APP_PRIVATE_KEY = "pem"
    /\ client.env.GITHUB_APP_INSTALLATION_ID = "678"
    /\ client.env.GITHUB_TOKEN = "ghp_env"
    /\ client.graphqlClient.authorization = "token ghp_arg"
    /\ Len(reqs) >= 1

\* the exchanged token wins over GITHUB_TOKEN
C24_WitnessApp ==
    /\ client.token = Undefined
    /\ client.env.GITHUB_TOKEN = "ghp_env"
    /\ client.graphqlClient.authorization = "token ghs_app"
    /\ Len(reqs) >= 1

----------------------------------------------------------------------------
(* Claims about the owner interpretation of the search.                    *)

\* the search string of the user interpretation of the owner
userQuery ==
    "user:" \o args.owner \o " is:issue"
    \o (IF args.state \in {Undefined, "open"} THEN " is:open" ELSE "")
    \o (IF args.state = "closed" THEN " is:closed" ELSE "")
    \o (IF args.repo # Undefined THEN " repo:" \o args.repo ELSE "")

\* C25: like getProject, getProjects and getRepositories, listProjectIssues
\* tries the user interpretation of the owner when the organization
\* interpretation yields nothing: a search that ended without a single node
\* from the organization search has issued a search for the user.
C25_SearchUserFallback ==
    (/\ fn = "listProjectIssues"
     /\ pc = "done"
     /\ ret.kind = "return"
     /\ Len(reqs) >= 1
     /\ nodesIn(resps) = <<>>) =>
        \E i \in 1..Len(reqs) : reqs[i].variables.q = userQuery

----------------------------------------------------------------------------
(* Claims about the columns of a project.                                  *)

\* the positions, among the collected fields, of those named like the status field
namedFields == { i \in 1..Len(nodesIn(resps)) : nodesIn(resps)[i].name = args.statusFieldName }

\* C26: getProjectColumns returns one record per option of the first
\* single-select field whose name equals the status-field name
\* case-sensitively, in option order, each record carrying that field's id, so
\* all records of one call share one field id; it returns an empty list when
\* no field has that name or the field has no options, and only after all
\* field pages were collected.
C26_Columns ==
    (fn = "getProjectColumns" /\ pc = "done" /\ ret.kind = "return") =>
        LET fields == nodesIn(resps)
            last == resps[Len(resps)]
        IN  /\ ~(last.container /\ last.hasNextPage /\ last.endCursor >= 0)
            /\ \A j, k \in 1..Len(ret.value) : ret.value[j].id = ret.value[k].id
            /\ IF namedFields = {}
               THEN ret.value = <<>>
               ELSE \E i \in namedFields :
                      /\ \A j \in namedFields : i <= j
                      /\ Len(ret.value) = Len(fields[i].options)
                      /\ \A k \in 1..Len(ret.value) :
                           /\ ret.value[k].id = fields[i].id
                           /\ ret.value[k].name = fields[i].options[k].name
                           /\ ret.value[k].optionId = fields[i].options[k].id

\* six fields on three pages: "status" and a second "Status" are passed over
C26_Witness ==
    /\ op = "getProjectColumns"
    /\ args.statusFieldName = "Status"
    /\ pc = "done"
    /\ Len(reqs) = 3
    /\ Len(nodesIn(resps)) = 6
    /\ ret.kind = "return"
    /\ Len(ret.value) = 3
    /\ \A k \in 1..3 : ret.value[k].id = "F_status"
    /\ ret.value[2].name = "In Progress"
    /\ ret.value[2].optionId = "O_doing"

\* the field exists and has no options
C26_WitnessNoOptions ==
    /\ op = "getProjectColumns"
    /\ args.statusFieldName = "Stage"
    /\ pc = "done"
    /\ namedFields # {}
    /\ ret = [kind |-> "return", value |-> <<>>]

\* the pages that were served hold no field of that name
C26_WitnessNoField ==
    /\ op = "getProjectColumns"
    /\ args.statusFieldName = "Status"
    /\ pc = "done"
    /\ Len(nodesIn(resps)) >= 2
    /\ namedFields = {}
    /\ ret = [kind |-> "return", value |-> <<>>]

----------------------------------------------------------------------------
(* Claims about the identifiers of listed items.                           *)

\* the positions of the raw nodes that carry an id, and the k-th of them
withId(raw) == { i \in 1..Len(raw) : raw[i].id \notin {Undefined, NullStr, ""} }
kth(S, k) == CHOOSE i \in S : Cardinality({ j \in S : j <= i }) = k

\* C27: every item returned by getProjectItems carries a non-empty
\* project-item id: raw nodes without an id are dropped, the others keep the
\* order in which the service returned them, and the id of a returned item is
\* the raw node's own id, never the id of its content.
C27_ItemIds ==
    (fn = "getProjectItems" /\ pc = "done" /\ ret.kind = "return") =>
        LET raw == nodesIn(resps)
        IN  /\ Len(ret.value) = Cardinality(withId(raw))
            /\ \A k \in 1..Len(ret.value) :
                 LET node == raw[kth(withId(raw), k)]
                 IN  /\ ret.value[k].id \notin {Undefined, NullStr, ""}
                     /\ ret.value[k].id = node.id
                     /\ ret.value[k].id # ret.value[k].content.id
                     /\ node.content # Null => ret.value[k].content.id = node.content.id

\* the node without id sat between PVTI_3 and PVTI_5
C27_Witness ==
    /\ op = "getProjectItems"
    /\ pc = "done"
    /\ ret.kind = "return"
    /\ Len(nodesIn(resps)) = 6
    /\ nodesIn(resps)[4].id = Undefined
    /\ Len(ret.value) = 5
    /\ ret.value[3].id = "PVTI_3"
    /\ ret.value[4].id = "PVTI_5"
    /\ ret.value[4].content.id = "I_5"

----------------------------------------------------------------------------
(* Claims about the records of the project issue search.                   *)

\* the positions of the links of `node` into project `projectId`
linksInto(node, projectId) ==
    { j \in 1..Len(node.projectItems) : node.projectItems[j].project.id = projectId }

\* C28: in each record of listProjectIssues, projectItemId and status come
\* from one and the same linked item, the first of the issue's linked items
\* whose project id equals the target projectId; a status the issue holds in
\* another project is never reported, and issue.id is the issue's node id,
\* distinct from projectItemId.
C28_SameLink ==
    (op = "listProjectIssues") =>
        LET nodes == nodesIn(resps)
        IN  \A k \in 1..Len(acc) :
              /\ acc[k].issue.id # acc[k].projectItemId
              /\ \E i \in 1..Len(nodes) :
                   /\ nodes[i].id = acc[k].issue.id
                   /\ \E j \in linksInto(nodes[i], args.projectId) :
                        /\ \A m \in linksInto(nodes[i], args.projectId) : j <= m
                        /\ acc[k].projectItemId = nodes[i].projectItems[j].id
                        /\ statusIs(nodes[i].projectItems[j].fieldValues,
                                    args.statusFieldName, acc[k].status)

\* I_1 is Done in PVT_b and Todo in PVT_a; I_7 has two items in PVT_a
C28_Witness ==
    /\ op = "listProjectIssues"
    /\ args.statusFieldName = "Status"
    /\ pc = "done"
    /\ ret.kind = "return"
    /\ Len(ret.value) = 3
    /\ ret.value[2].issue.id = "I_1"
    /\ ret.value[2].projectItemId = "PVTI_a1"
    /\ ret.value[2].status = "Todo"
    /\ ret.value[3].issue.id = "I_7"
    /\ ret.value[3].projectItemId = "PVTI_a7"
    /\ ret.value[3].status = "Todo"

\* the limit is spent on linked issues only
countsLinked ==
    Len(acc) = Min(limitInForce, Cardinality(linkedIssues(nodesIn(resps), args.projectId)))

\* the loop goes on after response i: its next request is out or is next
goesOn(i) == i < Len(reqs) \/ pc = "loop"

\* C29 as stated: in listProjectIssues the limit counts the returned
\* (project-linked) issues, not the scanned results, and the next search page
\* is requested whenever the previous page reported hasNextPage true and fewer
\* than `limit` linked issues have been collected, even if no result so far
\* was linked to the project.
C29_NextPageWhenever ==
    (fn = "listProjectIssues") =>
        /\ countsLinked
        /\ \A i \in 1..Len(resps) :
             (/\ resps[i].kind = "data"
              /\ resps[i].container
              /\ resps[i].hasNextPage
              /\ collectedAfter(i) < limitInForce) => goesOn(i)

\* C29, amended: the limit counts the returned (project-linked) issues, not
\* the scanned results, and the next search page is requested whenever the
\* previous page reported hasNextPage true together with a non-empty
\* endCursor and fewer than `limit` linked issues have been collected, even
\* if no result so far was linked to the project.
C29_LimitCountsLinked ==
    (fn = "listProjectIssues") =>
        /\ countsLinked
        /\ \A i \in 1..Len(resps) :
             (/\ resps[i].kind = "data"
              /\ resps[i].container
              /\ resps[i].hasNextPage
              /\ resps[i].endCursor >= 0
              /\ collectedAfter(i) < limitInForce) => goesOn(i)

\* limit 1: two pages without a linked issue, one result scanned and skipped,
\* and the third page is asked for
C29_Witness ==
    /\ op = "listProjectIssues"
    /\ args.limit = limitOption(1)
    /\ Len(reqs) = 3
    /\ Len(nodesIn(SubSeq(resps, 1, 2))) >= 1
    /\ collectedAfter(2) = 0
    /\ resps[3].kind = "data"
    /\ Len(acc) = 1

----------------------------------------------------------------------------
(* createIssue.                                                            *)

\* the repositories the service knows
CreateWorld == [data |-> <<[owner |-> "o", name |-> "r", id |-> "R_1"]>>]

\* CreateIssueParams as a caller passes them
CreateParams ==
    { [owner |-> "o", repo |-> rp, title |-> t, body |-> b] :
        rp \in {"r", "gone"}, t \in {"Fix bug", "Add docs"}, b \in {Undefined, "", "text"} }

\* responses to repository(owner: $owner, name: $name) { id }
repositoryResponses(data, owner, name) ==
    Throws
    \cup { [kind |-> "data", repository |-> Null] }
    \cup { [kind |-> "data", repository |-> [id |-> data[i].id]] :
             i \in { j \in 1..Len(data) : data[j].owner = owner /\ data[j].name = name } }

\* new Error(`Repository ${params.owner}/${params.repo} not found`)
RepositoryNotFound(params) ==
    [message |-> "Repository " \o params.owner \o "/" \o params.repo \o " not found",
     errors |-> <<>>]

\* a lookup that is taken to have found the repository whatever it returned
repositoryFoundAlways(r) == TRUE
\* if (!repoResult.repository) throw ...
repositoryFound(r) == r.repository # Null

\* the variables of the createIssue mutation
createVariables(params, repository) ==
    [repositoryId |-> repository.id, title |-> params.title, body |-> orElse(params.body, "")]

\* what the service answers to the mutation with these variables
createResponses(data, variables) ==
    Throws
    \cup { [kind |-> "data",
            issue |-> [id |-> "I_new", number |-> 100, title |-> variables.title,
                       body |-> variables.body, state |-> "OPEN",
                       url |-> "https://github.com/o/r/issues/100",
                       repository |-> [owner |-> [login |-> data[i].owner],
                                       name |-> data[i].name]]] :
             i \in { j \in 1..Len(data) : data[j].id = variables.repositoryId } }

\* the GitHubIssue createIssue returns
createdIssue(issue) ==
    [id |-> issue.id, number |-> issue.number, title |-> issue.title, body |-> issue.body,
     state |-> issue.state, url |-> issue.url,
     repository |-> [owner |-> issue.repository.owner.login, name |-> issue.repository.name]]

call_createIssue ==
    /\ pc = "idle"
    /\ \E p \in CreateParams : args' = p
    /\ world' = CreateWorld
    /\ op' = "createIssue"
    /\ fn' = "createIssue"
    /\ enter(fn', args')
    /\ UNCHANGED <<after, acc, reqs, resps, console, cmd>>

\* const repoResult = await client(repoQuery, { owner, name })
createIssue_lookup ==
    /\ fn = "createIssue"
    /\ pc = "single"
    /\ \E r \in repositoryResponses(world.data, args.owner, args.repo) :
         /\ reqs' = Append(reqs, request("repository",
                                  [owner |-> args.owner, name |-> args.repo]))
         /\ resps' = Append(resps, r)
         /\ IF r.kind = "throw"
            THEN /\ ret' = throw(r.error)
                 /\ pc' = "done"
            ELSE IF ~repositoryFound(r)
            THEN /\ ret' = throw(RepositoryNotFound(args))
                 /\ pc' = "done"
            ELSE /\ ret' = ret
                 /\ pc' = "mutate"
    /\ UNCHANGED <<op, fn, args, world, after, acc, console, client, cmd>>

\* const result = await client(mutation, { repositoryId, title, body })
createIssue_mutation ==
    /\ fn = "createIssue"
    /\ pc = "mutate"
    /\ LET variables == createVariables(args, resps[1].repository)
       IN  \E r \in createResponses(world.data, variables) :
             /\ reqs' = Append(reqs, request("createIssue", variables))
             /\ resps' = Append(resps, r)
             /\ ret' = IF r.kind = "throw" THEN throw(r.error)
                       ELSE return(createdIssue(r.issue))
    /\ pc' = "done"
    /\ UNCHANGED <<op, fn, args, world, after, acc, console, client, cmd>>

\* resolveProject and listProjectIssues, the operations with the most
\* inputs, as called below: on a number, a numeral and a title, and with
\* every limit and status field but no state and no repository
auth_resolveProject ==
    /\ call_resolveProject
    /\ args'.identifier \in {num(42), str(<<"4", "2">>), str(Roadmap)}

auth_listProjectIssues ==
    /\ call_listProjectIssues
    /\ args'.state = Undefined
    /\ args'.repo = Undefined

\* every public operation on a client whose credentials are not known to be
\* there, from getClient to its outcome
SpecAuth ==
    InitAuth /\ [][\/ getClient_exchange
                   \/ call_getProject
                   \/ getProject_org
                   \/ getProject_user
                   \/ call_getProjects
                   \/ getProjects_org
                   \/ getProjects_user
                   \/ auth_resolveProject
                   \/ call_getIssue
                   \/ getIssue_request
                   \/ call_getIssueById
                   \/ getIssueById_request
                   \/ call_getProjectItem
                   \/ getProjectItem_node
                   \/ call_getProjectColumns
                   \/ getProjectColumns_page
                   \/ call_listIssues
                   \/ listIssues_page
                   \/ auth_listProjectIssues
                   \/ listProjectIssues_page
                   \/ call_getRepositories
                   \/ getRepositories_org
                   \/ getRepositories_user
                   \/ call_getProjectItems
                   \/ getProjectItems_page
                   \/ call_listIssueComments
                   \/ listIssueComments_page
                   \/ call_createIssue
                   \/ createIssue_lookup
                   \/ createIssue_mutation
                   \/ call_moveIssue
                   \/ moveIssue_mutation
                   \/ call_updateIssue
                   \/ updateIssue_mutation
                   \/ call_addComment
                   \/ addComment_mutation
                   \/ call_addProjectItem
                   \/ addProjectItem_mutation
                   \/ call_addDraftItem
                   \/ addDraftItem_mutation
                   \/ call_archiveProjectItem
                   \/ archiveProjectItem_mutation
                   \/ call_deleteProjectItem
                   \/ deleteProjectItem_mutation
                   \/ call_closeIssue
                   \/ closeIssue_mutation]_vars

\* createIssue on any client a caller can construct
SpecCreate ==
    InitAuth /\ [][\/ call_createIssue
                   \/ getClient_exchange
                   \/ createIssue_lookup
                   \/ createIssue_mutation]_vars

----------------------------------------------------------------------------
(* Claims about createIssue.                                               *)

\* C30: createIssue sends the create mutation only after the repository
\* lookup returned a repository; when the lookup returns no repository it
\* raises a "Repository <owner>/<repo> not found" error and no mutation is
\* executed, and when the lookup itself raises, that error propagates and no
\* mutation is executed.
C30_CreateAfterLookup ==
    (fn = "createIssue") =>
        /\ \A i \in 1..Len(reqs) :
             reqs[i].doc = "createIssue" =>
                /\ i = 2
                /\ reqs[1].doc = "repository"
                /\ resps[1].kind = "data"
                /\ resps[1].repository # Null
                /\ reqs[2].variables.repositoryId = resps[1].repository.id
        /\ (Len(resps) >= 1 /\ resps[1].kind = "data" /\ resps[1].repository = Null) =>
             /\ Len(reqs) = 1
             /\ pc = "done"
             /\ ret.kind = "throw"
             /\ ret.error.message
                  = "Repository " \o args.owner \o "/" \o args.repo \o " not found"
        /\ (Len(resps) >= 1 /\ resps[1].kind = "throw") =>
             /\ Len(reqs) = 1
             /\ pc = "done"
             /\ ret.kind = "throw"
             /\ ret.error = resps[1].error

\* the lookup of o/gone returned no repository
C30_Witness ==
    /\ op = "createIssue"
    /\ args.repo = "gone"
    /\ Len(reqs) = 1
    /\ resps[1].kind = "data"
    /\ pc = "done"
    /\ ret.kind = "throw"
    /\ ret.error.message = "Repository o/gone not found"

\* the lookup returned R_1 and the issue was created in it
C30_WitnessCreated ==
    /\ op = "createIssue"
    /\ Len(reqs) = 2
    /\ reqs[2] = [doc |-> "createIssue",
                  variables |-> [repositoryId |-> "R_1", title |-> "Fix bug", body |-> ""]]
    /\ ret.kind = "return"
    /\ ret.value.id = "I_new"
    /\ ret.value.repository = [owner |-> "o", name |-> "r"]

\* the lookup itself failed
C30_WitnessLookupError ==
    /\ op = "createIssue"
    /\ Len(reqs) = 1
    /\ resps[1].kind = "throw"
    /\ pc = "done"
    /\ ret.kind = "throw"
    /\ ret.error = ForbiddenError

====
